---- MODULE Spec2Model ----
(***************************************************************************)
(* master-mold: subcommand discovery and dispatch.                         *)
(*                                                                         *)
(* pkg/binary   naming convention, IsExecutable, FindInDirectory,          *)
(*              FindInPath, FindAll, FindExecutable, Execute               *)
(* pkg/command  Registry (Register, Get, Execute), SubcommandExecutor      *)
(*                                                                         *)
(* File names and paths are strings; the filesystem is a map from          *)
(* directory path to its status and its entries.                           *)
(***************************************************************************)
EXTENDS Integers, Sequences, FiniteSets, TLC

VARIABLES
    fs,        \* the filesystem: [status: dir -> status, files: dir -> name -> entry]
    PATH,      \* the PATH environment variable, a ':'-separated string
    pc,        \* "ready": nothing called yet; "child": blocked on the child
               \* process; "done": the call returned
    ret,       \* the last call made of the locator, the enumerator, a naming
               \* function or the registry's bookkeeping, and what it returned
    handlers,  \* Registry.handlers: command name -> handler
    subcommandExecutor,  \* Registry.subcommandExecutor: "nil" or the delegate
    call,      \* the dispatch call made: Registry.Execute or binary.Execute
    events,    \* what the dispatch call did, in order
    child,     \* the child process
    result,    \* the error the dispatch call returned ("nil": success)
    osArgs,    \* os.Args of the master-mold process
    configFile,  \* the config paths and the files LoadConfig finds in them
    config,    \* Registry.config: the configuration loaded
    mainpc,    \* the position of main: "none" when the packages are called
               \* without main, else "start", "handle" or "exited"
    exitCode,  \* the exit status of the process, -1 while it runs
    elapsed,   \* the seconds the child process has been running
    stdout     \* the lines printed to standard output

fsvars == <<fs, PATH>>
regvars == <<handlers, subcommandExecutor>>
runvars == <<call, events, child, result>>
mainvars == <<osArgs, configFile, config, mainpc, exitCode, elapsed>>
vars == <<fs, PATH, pc, ret, handlers, subcommandExecutor, call, events, child, result,
          osArgs, configFile, config, mainpc, exitCode, elapsed, stdout>>

(***************************************************************************)
(* Bounds of the model.                                                    *)
(***************************************************************************)
\* the most directory entries the environment of a locator call holds
MaxEntries == 2

\* the most directory entries the environment of a dispatch holds
MaxDispatchEntries == 1

(***************************************************************************)
(* Strings: strings.HasPrefix, strings.TrimPrefix, strings.Split,          *)
(* filepath.Join / Base / Dir / IsAbs for the paths that occur.            *)
(***************************************************************************)
HasPrefix(s, prefix) ==
    Len(s) >= Len(prefix) /\ SubSeq(s, 1, Len(prefix)) = prefix

TrimPrefix(s, prefix) ==
    IF HasPrefix(s, prefix) THEN SubSeq(s, Len(prefix) + 1, Len(s)) ELSE s

\* index of the last '/' of s, 0 when there is none
LastSlash(s) ==
    LET idx == {i \in 1..Len(s) : SubSeq(s, i, i) = "/"}
    IN  IF idx = {} THEN 0 ELSE CHOOSE i \in idx : \A j \in idx : j <= i

\* path without its trailing separators
RECURSIVE StripTrailingSlashes(_)
StripTrailingSlashes(path) ==
    IF path # "" /\ SubSeq(path, Len(path), Len(path)) = "/"
    THEN StripTrailingSlashes(SubSeq(path, 1, Len(path) - 1))
    ELSE path

\* filepath.Base: "." for the empty path, "/" for a path of separators only,
\* else the last element, trailing separators removed
Base(path) ==
    IF path = "" THEN "."
    ELSE LET p == StripTrailingSlashes(path)
         IN  IF p = "" THEN "/" ELSE SubSeq(p, LastSlash(p) + 1, Len(p))

\* filepath.Dir, for cleaned paths
Dir(path) ==
    LET i == LastSlash(path)
    IN  IF i = 0 THEN "." ELSE IF i = 1 THEN "/" ELSE SubSeq(path, 1, i - 1)

\* filepath.Join(dir, name): empty elements are dropped and the result is
\* cleaned, so Join(".", n) = Join("", n) = n
Join(dir, name) ==
    IF dir = "" \/ dir = "." THEN name ELSE dir \o "/" \o name

IsAbs(path) == HasPrefix(path, "/")

\* index of the first separator of s at or after i, 0 when there is none
RECURSIVE FirstSep(_, _, _)
FirstSep(s, sep, i) ==
    IF i > Len(s) THEN 0
    ELSE IF SubSeq(s, i, i) = sep THEN i
    ELSE FirstSep(s, sep, i + 1)

\* strings.Split(s, sep) for a one-character sep: Split("", sep) = <<"">>
RECURSIVE Split(_, _)
Split(s, sep) ==
    LET i == FirstSep(s, sep, 1)
    IN  IF i = 0 THEN <<s>>
        ELSE <<SubSeq(s, 1, i - 1)>> \o Split(SubSeq(s, i + 1, Len(s)), sep)

\* filepath.SplitList: as Split, but the empty string gives no element
SplitList(s) == IF s = "" THEN <<>> ELSE Split(s, ":")

\* byte order of the characters that occur in file names
CharOrder == <<"-", "a", "d", "e", "l", "m", "o", "r", "s", "t", "x", "y">>

CharRank(c) == CHOOSE i \in 1..Len(CharOrder) : CharOrder[i] = c

\* s < t in byte-wise lexicographic order (the order os.ReadDir sorts by)
RECURSIVE LexLess(_, _)
LexLess(s, t) ==
    IF t = "" THEN FALSE
    ELSE IF s = "" THEN TRUE
    ELSE IF Head(s) = Head(t) THEN LexLess(Tail(s), Tail(t))
    ELSE CharRank(Head(s)) < CharRank(Head(t))

(***************************************************************************)
(* Naming convention (pkg/binary).                                         *)
(***************************************************************************)
MMPrefix == "mm-"
MasterMoldPrefix == "master-mold-"

ValidPrefixes == <<MMPrefix, MasterMoldPrefix>>

\* HasValidPrefix that knows the short prefix only
HasValidPrefix_ShortOnly(filename) ==
    HasPrefix(filename, MMPrefix)

HasValidPrefix(filename) ==
    \E i \in 1..Len(ValidPrefixes) : HasPrefix(filename, ValidPrefixes[i])

(***************************************************************************)
(* The environment: directories, their entries, HOME and PATH.             *)
(***************************************************************************)
\* $HOME of the process
Home == "/h"

\* the fallback directory, "${HOME}/b" once expanded
BaseDir == "/h/b"

\* the directories the environment lays out: an absolute one, the working
\* directory and the fallback directory
FsDirs == {"/a", ".", BaseDir}

\* the entry names that occur: both prefixes of command x, and no prefix
FileNames == {"mm-x", "master-mold-x", "x"}

\* the command names asked for
Commands == {"x", "y"}

\* values of the PATH variable: one or two elements, a relative and an empty
\* element, the fallback directory before and after another directory
PathValues == {"/a", "/a:/h/b", "/h/b:/a", ".:/a", ":/a"}

\* an entry: a regular file, a directory or a symbolic link to a directory,
\* with or without execute permission bits (of the link's target for a link)
None == [kind |-> "none", exec |-> FALSE]

Shapes ==
    { [kind |-> "file", exec |-> TRUE], [kind |-> "file", exec |-> FALSE],
      [kind |-> "dir", exec |-> TRUE], [kind |-> "symdir", exec |-> TRUE] }

\* "ok": exists, readable and searchable; "missing": does not exist;
\* "uncreatable": does not exist and cannot be created (parent not writable);
\* "unreadable": exists without read and search permission
DirStatus == {"ok", "missing", "uncreatable", "unreadable"}

\* at most one directory is not "ok"; the working directory always is
InitStatus ==
    { st \in [FsDirs -> DirStatus] :
        /\ st["."] = "ok"
        /\ st["/a"] # "uncreatable"
        /\ st[BaseDir] # "unreadable"
        /\ Cardinality({d \in FsDirs : st[d] # "ok"}) <= 1 }

NoFiles == [d \in FsDirs |-> [n \in FileNames |-> None]]

StatusOf(w, dir) == IF dir \in FsDirs THEN w.status[dir] ELSE "missing"

\* os.ExpandEnv, for a reference to HOME at the start of the string
ExpandEnv(s) ==
    IF HasPrefix(s, "${HOME}") THEN Home \o TrimPrefix(s, "${HOME}")
    ELSE IF HasPrefix(s, "$HOME") THEN Home \o TrimPrefix(s, "$HOME")
    ELSE s

\* os.Stat(path) of an entry: follows symbolic links
Stat(w, path) ==
    LET d == Dir(path)
        n == Base(path)
        e == IF StatusOf(w, d) = "ok" /\ n \in FileNames
             THEN w.files[d][n] ELSE None
    IN  IF e = None
        THEN [err |-> IF StatusOf(w, d) = "unreadable" THEN "EACCES" ELSE "ENOENT",
              isDir |-> FALSE, regular |-> FALSE, exec |-> FALSE]
        ELSE [err |-> "nil", isDir |-> e.kind \in {"dir", "symdir"},
              regular |-> e.kind = "file", exec |-> e.exec]

\* os.Stat(dir) reports that dir does not exist
DirNotExist(w, dir) == StatusOf(w, dir) \in {"missing", "uncreatable"}

\* the names of os.ReadDir(dir), sorted by file name
RECURSIVE SortNames(_)
SortNames(S) ==
    IF S = {} THEN <<>>
    ELSE LET m == CHOOSE a \in S : \A b \in S \ {a} : LexLess(a, b)
         IN  <<m>> \o SortNames(S \ {m})

ReadDir(w, dir) ==
    SortNames({n \in FileNames : w.files[dir][n] # None})

\* DirEntry.IsDir: the type of the entry itself, a link is not followed
EntryIsDir(w, dir, name) == w.files[dir][name].kind = "dir"

(***************************************************************************)
(* pkg/binary: IsExecutable, FindInDirectory, FindInPath, FindAll.         *)
(***************************************************************************)
IsExecutable(w, path) ==
    LET fileInfo == Stat(w, path)
    IN  fileInfo.err = "nil" /\ fileInfo.exec

\* the loop of FindInDirectory over the entries that remain
RECURSIVE ScanEntries(_, _, _)
ScanEntries(w, dir, entries) ==
    IF entries = <<>> THEN <<>>
    ELSE LET name == Head(entries)
             fullPath == Join(dir, name)
             rest == ScanEntries(w, dir, Tail(entries))
         IN  IF EntryIsDir(w, dir, name) THEN rest
             ELSE IF HasValidPrefix(name) /\ IsExecutable(w, fullPath)
                  THEN <<fullPath>> \o rest
                  ELSE rest

FindInDirectory(w, dir) ==
    IF DirNotExist(w, dir)
    THEN [binaries |-> <<>>, err |-> "nil"]
    ELSE IF StatusOf(w, dir) = "unreadable"
    THEN [binaries |-> <<>>, err |-> "failed to read directory: " \o dir]
    ELSE [binaries |-> ScanEntries(w, dir, ReadDir(w, dir)), err |-> "nil"]

\* the loop of FindInPath over the PATH elements that remain
RECURSIVE ScanPaths(_, _)
ScanPaths(w, paths) ==
    IF paths = <<>> THEN <<>>
    ELSE LET r == FindInDirectory(w, Head(paths))
             rest == ScanPaths(w, Tail(paths))
         IN  IF r.err # "nil" THEN rest ELSE r.binaries \o rest

\* FindInPath that gives up at a directory it cannot scan
FindInPath_FailFast(w) ==
    LET paths == Split(PATH, ":")
        failed == {i \in 1..Len(paths) : FindInDirectory(w, paths[i]).err # "nil"}
    IN  IF failed = {} THEN [binaries |-> ScanPaths(w, paths), err |-> "nil"]
        ELSE [binaries |-> <<>>,
              err |-> FindInDirectory(w, paths[CHOOSE i \in failed : TRUE]).err]

FindInPath(w) ==
    [binaries |-> ScanPaths(w, Split(PATH, ":")), err |-> "nil"]

\* os.MkdirAll(dir, 0755) on a directory that does not exist
MkdirAll(w, dir) ==
    IF StatusOf(w, dir) = "missing" /\ dir \in FsDirs
    THEN [world |-> [w EXCEPT !.status[dir] = "ok"], err |-> "nil"]
    ELSE [world |-> w, err |-> "mkdir " \o dir]

\* FindAll that appends the base directory's matches after those of PATH
FindAll_PathFirst(w, baseDir) ==
    LET mk == IF DirNotExist(w, baseDir) THEN MkdirAll(w, baseDir)
              ELSE [world |-> w, err |-> "nil"]
        baseDirBinaries == FindInDirectory(mk.world, baseDir)
        pathBinaries == FindInPath(mk.world)
    IN  IF mk.err # "nil"
        THEN [binaries |-> <<>>, err |-> "failed to create base directory",
              world |-> mk.world]
        ELSE IF baseDirBinaries.err # "nil"
        THEN [binaries |-> <<>>, err |-> baseDirBinaries.err, world |-> mk.world]
        ELSE [binaries |-> pathBinaries.binaries \o baseDirBinaries.binaries,
              err |-> "nil", world |-> mk.world]

\* FindAll that does not create a missing base directory
FindAll_NoMkdir(w, baseDir) ==
    LET baseDirBinaries == FindInDirectory(w, baseDir)
        pathBinaries == FindInPath(w)
    IN  IF baseDirBinaries.err # "nil"
        THEN [binaries |-> <<>>, err |-> baseDirBinaries.err, world |-> w]
        ELSE [binaries |-> baseDirBinaries.binaries \o pathBinaries.binaries,
              err |-> "nil", world |-> w]

\* FindAll: the list, the error, and the filesystem it leaves
FindAll(w, baseDir) ==
    LET mk == IF DirNotExist(w, baseDir) THEN MkdirAll(w, baseDir)
              ELSE [world |-> w, err |-> "nil"]
        w2 == mk.world
        baseDirBinaries == FindInDirectory(w2, baseDir)
        pathBinaries == FindInPath(w2)
    IN  IF mk.err # "nil"
        THEN [binaries |-> <<>>, err |-> "failed to create base directory", world |-> w2]
        ELSE IF baseDirBinaries.err # "nil"
        THEN [binaries |-> <<>>, err |-> baseDirBinaries.err, world |-> w2]
        ELSE IF pathBinaries.err # "nil"
        THEN [binaries |-> <<>>, err |-> pathBinaries.err, world |-> w2]
        ELSE [binaries |-> baseDirBinaries.binaries \o pathBinaries.binaries,
              err |-> "nil", world |-> w2]

(***************************************************************************)
(* os/exec.LookPath as pkg/binary calls it (a file name without '/').      *)
(***************************************************************************)
\* os/exec findExecutable: nil for a file that is no directory and has an
\* execute permission bit
LpFindExecutable(w, file) ==
    LET d == Stat(w, file)
    IN  IF d.err # "nil" THEN d.err
        ELSE IF d.isDir THEN "EISDIR"
        ELSE IF d.exec THEN "nil"
        ELSE "ErrPermission"

\* the loop of LookPath over the PATH elements that remain: the first hit
\* ends the search, and a hit through a relative element is the error ErrDot
RECURSIVE LookPathIn(_, _, _)
LookPathIn(w, file, dirs) ==
    IF dirs = <<>> THEN [path |-> "", err |-> "ErrNotFound"]
    ELSE LET dir == IF Head(dirs) = "" THEN "." ELSE Head(dirs)
             path == Join(dir, file)
         IN  IF LpFindExecutable(w, path) = "nil"
             THEN IF ~IsAbs(path) THEN [path |-> path, err |-> "ErrDot"]
                  ELSE [path |-> path, err |-> "nil"]
             ELSE LookPathIn(w, file, Tail(dirs))

LookPath(w, file) == LookPathIn(w, file, SplitList(PATH))

(***************************************************************************)
(* pkg/binary: FindExecutable.                                             *)
(***************************************************************************)
\* a search that walks PATH once and tries every name in each directory
RECURSIVE DirMajorIn(_, _, _)
DirMajorIn(w, binNames, dirs) ==
    IF dirs = <<>> THEN [path |-> "", err |-> "not found"]
    ELSE LET dir == IF Head(dirs) = "" THEN "." ELSE Head(dirs)
             hit == {i \in 1..Len(binNames) :
                        LpFindExecutable(w, Join(dir, binNames[i])) = "nil"}
             first == CHOOSE i \in hit : \A j \in hit : i <= j
         IN  IF hit = {} THEN DirMajorIn(w, binNames, Tail(dirs))
             ELSE IF ~IsAbs(dir) THEN DirMajorIn(w, binNames, Tail(dirs))
             ELSE [path |-> Join(dir, binNames[first]), err |-> "nil"]

FindInPathByNames_DirMajor(w, binNames) ==
    DirMajorIn(w, binNames, SplitList(PATH))

\* the first loop of FindExecutable: LookPath of each name in turn
RECURSIVE FindInPathByNames(_, _)
FindInPathByNames(w, binNames) ==
    IF binNames = <<>> THEN [path |-> "", err |-> "not found"]
    ELSE LET r == LookPath(w, Head(binNames))
         IN  IF r.err = "nil" THEN [path |-> r.path, err |-> "nil"]
             ELSE FindInPathByNames(w, Tail(binNames))

\* the second loop of FindExecutable: each name in the base directory
RECURSIVE FindInBaseByNames(_, _, _)
FindInBaseByNames(w, expandedBaseDir, binNames) ==
    IF binNames = <<>> THEN [path |-> "", err |-> "not found"]
    ELSE LET fullPath == Join(expandedBaseDir, Head(binNames))
         IN  IF IsExecutable(w, fullPath) THEN [path |-> fullPath, err |-> "nil"]
             ELSE FindInBaseByNames(w, expandedBaseDir, Tail(binNames))

\* FindExecutable with the two tiers swapped: the base directory first
FindExecutable_BaseFirst(w, command, baseDir) ==
    LET binNames == <<MMPrefix \o command, MasterMoldPrefix \o command>>
        inPath == FindInPathByNames(w, binNames)
        inBase == FindInBaseByNames(w, ExpandEnv(baseDir), binNames)
    IN  IF inBase.err = "nil" THEN inBase
        ELSE IF inPath.err = "nil" THEN inPath
        ELSE [path |-> "", err |-> "subcommand '" \o command \o "' not found"]

\* FindExecutable that tries master-mold-<command> before mm-<command>
FindExecutable_MasterMoldFirst(w, command, baseDir) ==
    LET binNames == <<MasterMoldPrefix \o command, MMPrefix \o command>>
        expandedBaseDir == ExpandEnv(baseDir)
        inPath == FindInPathByNames(w, binNames)
        inBase == FindInBaseByNames(w, expandedBaseDir, binNames)
    IN  IF inPath.err = "nil" THEN inPath
        ELSE IF inBase.err = "nil" THEN inBase
        ELSE [path |-> "", err |-> "subcommand '" \o command \o "' not found"]

FindExecutable(w, command, baseDir) ==
    LET binNames == <<MMPrefix \o command, MasterMoldPrefix \o command>>
        expandedBaseDir == ExpandEnv(baseDir)
        inPath == FindInPathByNames(w, binNames)
        inBase == FindInBaseByNames(w, expandedBaseDir, binNames)
    IN  IF inPath.err = "nil" THEN inPath
        ELSE IF inBase.err = "nil" THEN inBase
        ELSE [path |-> "", err |-> "subcommand '" \o command \o "' not found"]

(***************************************************************************)
(* pkg/binary: ExtractCommandName; pkg/display: ProcessBinaries and the    *)
(* lines PrintBinaryPaths prints.                                          *)
(***************************************************************************)
\* the loop of ExtractCommandName over the prefixes that remain
RECURSIVE StripFirstPrefix(_, _)
StripFirstPrefix(commandName, prefixes) ==
    IF prefixes = <<>> THEN commandName
    ELSE IF HasPrefix(commandName, Head(prefixes))
    THEN TrimPrefix(commandName, Head(prefixes))
    ELSE StripFirstPrefix(commandName, Tail(prefixes))

\* ExtractCommandName that strips a second prefix after the first
ExtractCommandName_StripTwice(binaryPath) ==
    StripFirstPrefix(StripFirstPrefix(Base(binaryPath), ValidPrefixes), ValidPrefixes)

ExtractCommandName(binaryPath) ==
    StripFirstPrefix(Base(binaryPath), ValidPrefixes)

\* the loop of ProcessBinaries over the paths that remain
RECURSIVE ProcessBinariesFrom(_, _, _)
ProcessBinariesFrom(binaryPaths, seenCommands, infos) ==
    IF binaryPaths = <<>> THEN infos
    ELSE LET binaryPath == Head(binaryPaths)
             commandName == ExtractCommandName(binaryPath)
         IN  IF commandName \in seenCommands
             THEN ProcessBinariesFrom(Tail(binaryPaths), seenCommands, infos)
             ELSE ProcessBinariesFrom(
                      Tail(binaryPaths), seenCommands \cup {commandName},
                      Append(infos, [Name |-> commandName, FullPath |-> binaryPath]))

\* ProcessBinaries that keeps the last path of a command name
ProcessBinaries_LastWins(binaryPaths) ==
    LET last(n) == CHOOSE i \in 1..Len(binaryPaths) :
                      /\ ExtractCommandName(binaryPaths[i]) = n
                      /\ \A j \in (i + 1)..Len(binaryPaths) :
                            ExtractCommandName(binaryPaths[j]) # n
        first == ProcessBinariesFrom(binaryPaths, {}, <<>>)
    IN  [i \in 1..Len(first) |->
            [Name |-> first[i].Name, FullPath |-> binaryPaths[last(first[i].Name)]]]

ProcessBinaries(binaryPaths) ==
    ProcessBinariesFrom(binaryPaths, {}, <<>>)

FormatBinaryInfo(info) ==
    "  - " \o info.Name \o " (" \o info.FullPath \o ")"

\* the lines PrintBinaries writes
PrintBinaries(binaries) ==
    IF Len(binaries) = 0 THEN <<"No subcommand binaries found.">>
    ELSE <<"Available subcommands:">>
         \o [i \in 1..Len(binaries) |-> FormatBinaryInfo(binaries[i])]

\* the lines PrintBinaryPaths writes
PrintBinaryPaths(binaryPaths) == PrintBinaries(ProcessBinaries(binaryPaths))

(***************************************************************************)
(* The locator and the enumerator called on an environment.                *)
(***************************************************************************)
NoRet ==
    [op |-> "none", arg |-> "", path |-> "", binaries |-> <<>>, err |-> "nil",
     before |-> "ok", ok |-> FALSE, infos |-> <<>>]

\* the filesystems that differ from w by one more entry, in one of dirs and
\* called one of names
OneMore(w, dirs, names) ==
    { [w EXCEPT !.files[d][n] = shape] :
        d \in {e \in dirs : w.status[e] \in {"ok", "unreadable"}},
        n \in names, shape \in Shapes }

\* the filesystems with at most k entries, over directories of status st
RECURSIVE Worlds(_, _, _, _)
Worlds(st, k, dirs, names) ==
    IF k = 0 THEN {[status |-> st, files |-> NoFiles]}
    ELSE LET prev == Worlds(st, k - 1, dirs, names)
         IN  prev \cup UNION {OneMore(w, dirs, names) : w \in prev}

CallFindExecutable(command, baseDir) ==
    /\ pc = "ready"
    /\ pc' = "done"
    /\ LET r == FindExecutable(fs, command, baseDir)
       IN  ret' = [op |-> "FindExecutable", arg |-> command, path |-> r.path,
                   binaries |-> <<>>, err |-> r.err,
                   before |-> StatusOf(fs, ExpandEnv(baseDir)),
                   ok |-> FALSE, infos |-> <<>>]
    /\ UNCHANGED <<fs, PATH, regvars, runvars, mainvars, stdout>>

CallFindInDirectory(dir) ==
    /\ pc = "ready"
    /\ pc' = "done"
    /\ LET r == FindInDirectory(fs, dir)
       IN  ret' = [op |-> "FindInDirectory", arg |-> dir, path |-> "",
                   binaries |-> r.binaries, err |-> r.err,
                   before |-> StatusOf(fs, dir), ok |-> FALSE, infos |-> <<>>]
    /\ UNCHANGED <<fs, PATH, regvars, runvars, mainvars, stdout>>

CallFindAll(baseDir) ==
    /\ pc = "ready"
    /\ pc' = "done"
    /\ LET r == FindAll(fs, baseDir)
       IN  /\ ret' = [op |-> "FindAll", arg |-> baseDir, path |-> "",
                      binaries |-> r.binaries, err |-> r.err,
                      before |-> StatusOf(fs, baseDir), ok |-> FALSE, infos |-> <<>>]
           /\ fs' = r.world
    /\ UNCHANGED <<PATH, regvars, runvars, mainvars, stdout>>

\* the base directory as the configuration file spells it
ConfigBaseDir == "${HOME}/b"

(***************************************************************************)
(* pkg/config and pkg/command: the registry and the subcommand executor.   *)
(***************************************************************************)
\* config.DefaultConfig
DefaultConfig == [BaseDir |-> ConfigBaseDir, Timeout |-> 10]

\* config.toml is not there
NoConfigFile == [state |-> "none", base_dir |-> "", timeout |-> 0]

GetExpandedBaseDir(cfg) == ExpandEnv(cfg.BaseDir)

\* the handlers registered in the model: one that succeeds, one that fails
Handlers == {"okHandler", "failHandler"}

\* the functions registered as handlers
HandlerFuncs == {"okFunc"}

\* HandlerFunc(fn): the function as a Handler
HandlerFunc(fn) == "HandlerFunc(" \o fn \o ")"

\* Handler.Execute(args) of a registered handler without effect on the
\* filesystem and the standard output
HandlerExecute(handler, args) ==
    IF handler = "okHandler" \/ handler = HandlerFunc("okFunc") THEN "nil"
    ELSE "handler failed"

\* the argument vectors passed
ArgLists == {<<>>, <<"arg1", "arg2">>}

\* the exit statuses of a child
ExitCodes == {0, 1}

\* the paths binary.Execute is called with directly
ExecPathInputs == {"/a/mm-x", "/h/b/mm-x"}

NoCall == [op |-> "none", name |-> "", args |-> <<>>]
NoChild == [state |-> "none", path |-> "", args |-> <<>>, code |-> 0]

Event(ev, name, args) == [ev |-> ev, name |-> name, args |-> args]

\* errors.Wrapf(cause, message)
Wrap(cause, message) == message \o ": " \o cause

\* the timeout values a configuration file sets
TimeoutValues == {1, 2}

\* the configuration before LoadConfig
NoConfig == [BaseDir |-> "", Timeout |-> 0]

\* the working directory of the process
Cwd == "/w"

\* the config paths main passes to LoadConfig, and their absolute form
MainConfigPaths == <<"./config", "$HOME/b">>
ConfigDirs == {"/w/config", "/h/b"}

\* filepath.Abs, for a path with at most a leading "./"
Abs(path) == IF IsAbs(path) THEN path ELSE Join(Cwd, TrimPrefix(path, "./"))

\* viper's absPathify, applied by AddConfigPath: a leading $HOME and the
\* environment variables are expanded, a relative path is made absolute
AbsPathify(inPath) ==
    LET home == IF inPath = "$HOME" \/ HasPrefix(inPath, "$HOME/")
                THEN Home \o TrimPrefix(inPath, "$HOME") ELSE inPath
    IN  Abs(ExpandEnv(home))

\* what config.toml of a config path can be: not there, a file that is not
\* TOML, a file with base_dir and timeout
ConfigFiles ==
    { NoConfigFile, [state |-> "invalid", base_dir |-> "", timeout |-> 0] }
    \cup { [state |-> "valid", base_dir |-> ConfigBaseDir, timeout |-> t] :
             t \in TimeoutValues }

\* a config path is a directory ("ok"), a directory without write permission
\* ("readonly") or does not exist ("missing"); only a directory holds a file
ConfigDirStatus == {"ok", "readonly", "missing"}

ConfigWorlds ==
    { cw \in [dir : [ConfigDirs -> ConfigDirStatus], file : [ConfigDirs -> ConfigFiles]] :
        \A d \in ConfigDirs : cw.dir[d] = "missing" => cw.file[d] = NoConfigFile }

\* no config path exists
NoConfigFiles ==
    [dir |-> [d \in ConfigDirs |-> "missing"], file |-> [d \in ConfigDirs |-> NoConfigFile]]

\* config.toml of directory d
ConfigFileIn(cw, d) == IF d \in ConfigDirs THEN cw.file[d] ELSE NoConfigFile

\* viper's findConfigFile: the first config path that holds config.toml, 0 when
\* none does (ConfigFileNotFoundError)
FindConfigFile(cw, paths) ==
    LET found == {i \in 1..Len(paths) : ConfigFileIn(cw, paths[i]) # NoConfigFile}
    IN  IF found = {} THEN 0 ELSE CHOOSE i \in found : \A j \in found : i <= j

\* os.MkdirAll(dir) on the config paths: the working directory exists
ConfigMkdirAll(cw, dir) ==
    LET d == Abs(dir)
    IN  IF d \in ConfigDirs /\ cw.dir[d] = "missing"
        THEN [world |-> [cw EXCEPT !.dir[d] = "ok"], err |-> "nil"]
        ELSE [world |-> cw, err |-> "nil"]

\* the TOML file viper writes for the settings, and Unmarshal of a file into
\* Config by the mapstructure tags base_dir and timeout
MarshalConfig(cfg) ==
    [state |-> "valid", base_dir |-> cfg.BaseDir, timeout |-> cfg.Timeout]
UnmarshalConfig(file) == [BaseDir |-> file.base_dir, Timeout |-> file.timeout]

\* viper's SafeWriteConfig: the settings are written to config.toml of the
\* first config path, which must exist, be writable and not hold the file
SafeWriteConfig(cw, paths, settings) ==
    IF Len(paths) < 1
    THEN [world |-> cw, err |-> "missing configuration for 'configPath'"]
    ELSE LET d == paths[1]
             st == IF d \in ConfigDirs THEN cw.dir[d] ELSE "missing"
         IN  IF ConfigFileIn(cw, d) # NoConfigFile
             THEN [world |-> cw, err |-> "Config File Already Exists"]
             ELSE IF st = "missing"
             THEN [world |-> cw, err |-> "no such file or directory"]
             ELSE IF st = "readonly"
             THEN [world |-> cw, err |-> "permission denied"]
             ELSE [world |-> [cw EXCEPT !.file[d] = MarshalConfig(settings)],
                   err |-> "nil"]

\* config.LoadConfig(configPaths): the configuration, the error and the
\* config paths it leaves
LoadConfig(configPaths, cw) ==
    LET paths == [i \in 1..Len(configPaths) |-> AbsPathify(configPaths[i])]
        used == FindConfigFile(cw, paths)
        file == ConfigFileIn(cw, paths[used])
        dirOfUsed == Dir("")
        configDir == IF dirOfUsed = ""
                     THEN IF Len(configPaths) > 0 THEN configPaths[1] ELSE "."
                     ELSE dirOfUsed
        mk == ConfigMkdirAll(cw, configDir)
        written == SafeWriteConfig(mk.world, paths, DefaultConfig)
    IN  IF used # 0
        THEN IF file.state = "valid"
             THEN [config |-> UnmarshalConfig(file), err |-> "nil", world |-> cw]
             ELSE [config |-> NoConfig, world |-> cw,
                   err |-> Wrap("While parsing config", "failed to read config file")]
        ELSE IF mk.err # "nil"
        THEN [config |-> NoConfig, world |-> cw,
              err |-> Wrap(mk.err, "failed to create config directory")]
        ELSE IF written.err # "nil"
        THEN [config |-> NoConfig, world |-> mk.world,
              err |-> Wrap(written.err, "failed to create default config")]
        ELSE [config |-> DefaultConfig, err |-> "nil", world |-> written.world]

\* how starting path as a process can end: it runs, or the start fails
LaunchOutcomes(w, path) ==
    LET fi == Stat(w, path)
    IN  IF fi.err = "ENOENT" THEN {"no such file or directory"}
        ELSE IF fi.err # "nil" \/ fi.isDir \/ ~fi.exec THEN {"permission denied"}
        ELSE {"started", "exec format error"}

\* config.EnsureBaseDirExists: the error, and the filesystem it leaves
EnsureBaseDirExists(w, cfg) ==
    LET baseDir == GetExpandedBaseDir(cfg)
        mk == MkdirAll(w, baseDir)
    IN  IF ~DirNotExist(w, baseDir) THEN [world |-> w, err |-> "nil"]
        ELSE IF mk.err = "nil" THEN [world |-> mk.world, err |-> "nil"]
        ELSE [world |-> w, err |-> Wrap(mk.err, "failed to create base directory")]

\* ListBinariesHandler.Execute(args) of the handler made with cfg
ListBinariesHandlerExecute(cfg, args) ==
    LET ensured == EnsureBaseDirExists(fs, cfg)
        baseDir == GetExpandedBaseDir(cfg)
        found == FindAll(ensured.world, baseDir)
    IN  IF ensured.err # "nil"
        THEN /\ result' = Wrap(ensured.err, "failed to ensure base directory exists")
             /\ fs' = ensured.world
             /\ stdout' = stdout
        ELSE IF found.err # "nil"
        THEN /\ result' = Wrap(found.err, "failed to find binaries")
             /\ fs' = found.world
             /\ stdout' = stdout
        ELSE /\ result' = "nil"
             /\ fs' = found.world
             /\ stdout' = stdout \o PrintBinaryPaths(found.binaries)

\* handler.Execute(args) of the handler registered in a registry made with cfg
HandlerRun(cfg, handler, args) ==
    IF handler = "ListBinariesHandler"
    THEN ListBinariesHandlerExecute(cfg, args)
    ELSE /\ result' = HandlerExecute(handler, args)
         /\ UNCHANGED <<fs, stdout>>

\* Register that keeps the handler a name already has
Register_KeepFirst(name, handler) ==
    /\ pc = "ready"
    /\ handlers' = [n \in DOMAIN handlers \cup {name} |->
                       IF n \in DOMAIN handlers THEN handlers[n] ELSE handler]
    /\ ret' = [NoRet EXCEPT !.op = "Register", !.arg = name, !.path = handler]
    /\ UNCHANGED <<fsvars, pc, subcommandExecutor, runvars, mainvars, stdout>>

\* Registry.Register
Register(name, handler) ==
    /\ pc = "ready"
    /\ handlers' = [n \in DOMAIN handlers \cup {name} |->
                       IF n = name THEN handler ELSE handlers[n]]
    /\ ret' = [NoRet EXCEPT !.op = "Register", !.arg = name, !.path = handler]
    /\ UNCHANGED <<fsvars, pc, subcommandExecutor, runvars, mainvars, stdout>>

\* Registry.RegisterFunc
RegisterFunc(name, fn) == Register(name, HandlerFunc(fn))

\* RegisterSubcommandExecutor
RegisterSubcommandExecutor ==
    /\ pc = "ready"
    /\ subcommandExecutor' = "SubcommandExecutor.Execute"
    /\ UNCHANGED <<fsvars, pc, ret, handlers, runvars, mainvars, stdout>>

\* a lookup that never finds the handler
Get_NeverFound(name) == [handler |-> "nil", ok |-> FALSE]

\* Registry.Get
Get(name) ==
    IF name \in DOMAIN handlers
    THEN [handler |-> handlers[name], ok |-> TRUE]
    ELSE [handler |-> "nil", ok |-> FALSE]

\* binary.Execute that drops the error of a process that did not start
BinaryExecuteStart_ErrorDropped(done, cmdPath, args, start) ==
    /\ events' = done \o <<Event("launch", cmdPath, args)>>
    /\ IF start = "started"
       THEN /\ child' = [state |-> "running", path |-> cmdPath, args |-> args,
                         code |-> 0]
            /\ pc' = "child"
            /\ result' = result
       ELSE /\ child' = child
            /\ pc' = "done"
            /\ result' = "nil"

\* binary.Execute(cmdPath, args) up to the point where cmd.Run waits for the
\* child, after the events in done; start is how the start of the process ends
BinaryExecuteStart(done, cmdPath, args, start) ==
    /\ events' = done \o <<Event("launch", cmdPath, args)>>
    /\ IF start = "started"
       THEN /\ child' = [state |-> "running", path |-> cmdPath, args |-> args,
                         code |-> 0]
            /\ pc' = "child"
            /\ result' = result
       ELSE /\ child' = child
            /\ pc' = "done"
            /\ result' = Wrap(start, "failed to execute binary '" \o cmdPath \o "'")

\* SubcommandExecutor.Execute that looks a second time after a failed lookup
SubcommandExecutorExecute_Retry(cfg, done, name, args) ==
    LET baseDir == GetExpandedBaseDir(cfg)
        found == FindExecutable(fs, name, baseDir)
        located == done \o <<Event("delegate", name, args), Event("locate", name, <<>>)>>
    IN  IF found.err # "nil"
        THEN /\ events' = located \o <<Event("locate", name, <<>>)>>
             /\ result' = Wrap(found.err, "subcommand '" \o name \o "' not found")
             /\ pc' = "done"
             /\ child' = child
        ELSE \E start \in LaunchOutcomes(fs, found.path) :
                BinaryExecuteStart(located, found.path, args, start)

\* SubcommandExecutor.Execute that, after a failed lookup, still starts the
\* conventional binary of the fallback directory
SubcommandExecutorExecute_LaunchAnyway(cfg, done, name, args) ==
    LET baseDir == GetExpandedBaseDir(cfg)
        found == FindExecutable(fs, name, baseDir)
        located == done \o <<Event("delegate", name, args), Event("locate", name, <<>>)>>
        cmdPath == IF found.err # "nil" THEN Join(baseDir, MMPrefix \o name)
                   ELSE found.path
    IN  \E start \in LaunchOutcomes(fs, cmdPath) :
            BinaryExecuteStart(located, cmdPath, args, start)

\* SubcommandExecutor.Execute(name, args) of the executor made with cfg,
\* after the events in done
SubcommandExecutorExecute(cfg, done, name, args) ==
    LET baseDir == GetExpandedBaseDir(cfg)
        found == FindExecutable(fs, name, baseDir)
        located == done \o <<Event("delegate", name, args), Event("locate", name, <<>>)>>
    IN  IF found.err # "nil"
        THEN /\ events' = located
             /\ result' = Wrap(found.err, "subcommand '" \o name \o "' not found")
             /\ pc' = "done"
             /\ child' = child
        ELSE \E start \in LaunchOutcomes(fs, found.path) :
                BinaryExecuteStart(located, found.path, args, start)

\* Registry.ExecuteSubcommand(name, args)
ExecuteSubcommand(name, args) == "nil"

\* Registry.Execute that stores the delegate as the handler of a name it
\* delegated
RegistryExecuteWith_RegistersDelegate(cfg, name, args) ==
    /\ pc = "ready"
    /\ call' = [op |-> "Registry.Execute", name |-> name, args |-> args]
    /\ IF Get(name).ok
       THEN /\ events' = events \o <<Event("handler", Get(name).handler, args)>>
            /\ HandlerRun(cfg, Get(name).handler, args)
            /\ pc' = "done"
            /\ child' = child
            /\ UNCHANGED regvars
       ELSE IF subcommandExecutor # "nil"
       THEN /\ SubcommandExecutorExecute(cfg, events, name, args)
            /\ handlers' = [n \in DOMAIN handlers \cup {name} |->
                               IF n = name THEN subcommandExecutor ELSE handlers[n]]
            /\ UNCHANGED <<fs, stdout, subcommandExecutor>>
       ELSE /\ events' = events \o <<Event("ExecuteSubcommand", name, args)>>
            /\ result' = ExecuteSubcommand(name, args)
            /\ pc' = "done"
            /\ child' = child
            /\ UNCHANGED <<fs, stdout, regvars>>
    /\ UNCHANGED <<PATH, ret, mainvars>>

\* Registry.Execute(name, args) of a registry made with cfg
RegistryExecuteWith(cfg, name, args) ==
    /\ pc = "ready"
    /\ call' = [op |-> "Registry.Execute", name |-> name, args |-> args]
    /\ IF Get(name).ok
       THEN /\ events' = events \o <<Event("handler", Get(name).handler, args)>>
            /\ HandlerRun(cfg, Get(name).handler, args)
            /\ pc' = "done"
            /\ child' = child
       ELSE IF subcommandExecutor # "nil"
       THEN /\ SubcommandExecutorExecute(cfg, events, name, args)
            /\ UNCHANGED <<fs, stdout>>
       ELSE /\ events' = events \o <<Event("ExecuteSubcommand", name, args)>>
            /\ result' = ExecuteSubcommand(name, args)
            /\ pc' = "done"
            /\ child' = child
            /\ UNCHANGED <<fs, stdout>>
    /\ UNCHANGED <<PATH, ret, regvars, mainvars>>

\* Registry.Execute(name, args) of the registry
RegistryExecute(name, args) == RegistryExecuteWith(config, name, args)

\* Registry.Get called on its own
CallGet(name) ==
    /\ pc = "ready"
    /\ ret' = [NoRet EXCEPT !.op = "Get", !.arg = name,
                            !.path = Get(name).handler, !.ok = Get(name).ok]
    /\ UNCHANGED <<fsvars, pc, regvars, runvars, mainvars, stdout>>

\* the caller of the registry goes on to its next call
NextCall ==
    /\ pc = "done"
    /\ pc' = "ready"
    /\ events' = << >>
    /\ child' = NoChild
    /\ UNCHANGED <<fsvars, ret, regvars, call, result, mainvars, stdout>>

\* ListBinariesHandler.Execute called on its own
CallListBinaries ==
    /\ pc = "ready"
    /\ pc' = "done"
    /\ call' = [op |-> "ListBinariesHandler.Execute", name |-> "list-binaries",
                args |-> <<>>]
    /\ ListBinariesHandlerExecute(config, <<>>)
    /\ UNCHANGED <<PATH, ret, regvars, events, child, mainvars>>

\* binary.Execute(cmdPath, args) called on its own
BinaryExecute(cmdPath, args) ==
    /\ pc = "ready"
    /\ call' = [op |-> "binary.Execute", name |-> cmdPath, args |-> args]
    /\ \E start \in LaunchOutcomes(fs, cmdPath) :
          BinaryExecuteStart(events, cmdPath, args, start)
    /\ UNCHANGED <<fsvars, ret, regvars, mainvars, stdout>>

\* the child process exits
ChildExit(code) ==
    /\ pc = "child"
    /\ child.state = "running"
    /\ child' = [child EXCEPT !.state = "exited", !.code = code]
    /\ events' = events \o <<Event("exit", child.path, child.args)>>
    /\ UNCHANGED <<fsvars, pc, ret, regvars, call, result, mainvars, stdout>>

\* a runner that starts the child and returns without waiting for it
ExecuteReturn_NoWait ==
    /\ pc = "child"
    /\ result' = "nil"
    /\ events' = events \o <<Event("return", child.path, child.args)>>
    /\ pc' = "done"
    /\ UNCHANGED <<fsvars, ret, regvars, call, child, mainvars, stdout>>

\* a runner that gives the child up once the configured timeout has passed
ExecuteReturn_AtTimeout ==
    /\ pc = "child"
    /\ child.state = "exited" \/ elapsed >= config.Timeout
    /\ result' = IF child.state = "exited" /\ child.code = 0 THEN "nil"
                 ELSE Wrap("signal: killed",
                           "failed to execute binary '" \o child.path \o "'")
    /\ events' = events \o <<Event("return", child.path, child.args)>>
    /\ pc' = "done"
    /\ UNCHANGED <<fsvars, ret, regvars, call, child, mainvars, stdout>>

\* cmd.Run returns once the child has exited, and binary.Execute with it
ExecuteReturn ==
    /\ pc = "child"
    /\ child.state = "exited"
    /\ result' = IF child.code = 0 THEN "nil"
                 ELSE Wrap("exit status " \o ToString(child.code),
                           "failed to execute binary '" \o child.path \o "'")
    /\ events' = events \o <<Event("return", child.path, child.args)>>
    /\ pc' = "done"
    /\ UNCHANGED <<fsvars, ret, regvars, call, child, mainvars, stdout>>

(***************************************************************************)
(* Specifications.                                                         *)
(***************************************************************************)
AllOk == [d \in FsDirs |-> "ok"]

InitProgram ==
    /\ pc = "ready"
    /\ ret = NoRet
    /\ handlers = << >>
    /\ subcommandExecutor = "nil"
    /\ call = NoCall
    /\ events = << >>
    /\ child = NoChild
    /\ result = "nil"
    /\ osArgs = << >>
    /\ configFile = NoConfigFiles
    /\ config = DefaultConfig
    /\ mainpc = "none"
    /\ exitCode = -1
    /\ elapsed = 0
    /\ stdout = << >>

\* the directories FindInDirectory is called on: absolute and relative
ScanDirInputs == {"/a", "."}

\* the locator and the enumerator, called once on an environment
Init ==
    /\ fs \in UNION {Worlds(st, MaxEntries, FsDirs, FileNames) : st \in InitStatus}
    /\ PATH \in PathValues
    /\ InitProgram

Next ==
    \/ \E command \in Commands : CallFindExecutable(command, ConfigBaseDir)
    \/ \E dir \in ScanDirInputs : CallFindInDirectory(dir)
    \/ CallFindAll(BaseDir)

Spec == Init /\ [][Next]_vars

\* the environments of a dispatch: entries of command x in an absolute PATH
\* directory and in the fallback directory
DispatchDirs == {"/a", BaseDir}
DispatchNames == {"mm-x", "master-mold-x"}
DispatchPathValues == {"/a", ""}

\* registration, then one dispatch through the registry or one direct call
\* of the process runner
DispatchInit ==
    /\ fs \in Worlds(AllOk, MaxDispatchEntries, DispatchDirs, DispatchNames)
    /\ PATH \in DispatchPathValues
    /\ InitProgram

DispatchNext ==
    \/ \E name \in Commands, handler \in Handlers : Register(name, handler)
    \/ RegisterSubcommandExecutor
    \/ \E name \in Commands, args \in ArgLists : RegistryExecute(name, args)
    \/ \E cmdPath \in ExecPathInputs, args \in ArgLists : BinaryExecute(cmdPath, args)
    \/ \E code \in ExitCodes : ChildExit(code)
    \/ ExecuteReturn

DispatchSpec == DispatchInit /\ [][DispatchNext]_vars

\* the locator alone, on more entries of the two candidate names of x: PATH
\* with a relative element first, PATH of one absolute directory, PATH that
\* lists the fallback directory
MaxLocateEntries == 3
LocatePathValues == {".:/a", "/a", "/h/b:/a"}

LocateInit ==
    /\ fs \in Worlds(AllOk, MaxLocateEntries, FsDirs, DispatchNames)
    /\ PATH \in LocatePathValues
    /\ InitProgram

LocateNext == \E command \in Commands : CallFindExecutable(command, ConfigBaseDir)

LocateSpec == LocateInit /\ [][LocateNext]_vars

(***************************************************************************)
(* The naming functions and the display-layer processor applied to inputs. *)
(***************************************************************************)
\* the file names HasValidPrefix is applied to
FilenameInputs ==
    {"", "m", "mm", "mm-", "mm-x", "mm_x", "MM-x", "x", "xmm-x", "mm-mm-x",
     "master-mold", "master-mold-", "master-mold-x", "master-x"}

\* the directory parts, the prefixes and the command names of the paths
\* ExtractCommandName is applied to
ExtractDirs == {"", "/a", "."}
ExtractCommands == {"", "x", "mm-x", "master-mold-x"}

\* those paths, and paths without a recognized prefix or with a trailing
\* separator
ExtractPathInputs ==
    { dir \o "/" \o q \o c :
        dir \in ExtractDirs, q \in {MMPrefix, MasterMoldPrefix}, c \in ExtractCommands }
    \cup {"", "/", "mm-x", "/a/x", "/a/xmm-x", "/a/mm-x/", "/mm-x/y", "/a/mm"}

\* the most paths a list handed to ProcessBinaries holds
MaxPaths == 3

\* the paths of those lists
ProcessPathInputs == {"/a/mm-x", "/b/mm-x", "/c/mm-y", "/a/master-mold-x", "/a/x"}

PathLists == UNION {[1..n -> ProcessPathInputs] : n \in 0..MaxPaths}

CallHasValidPrefix(filename) ==
    /\ pc = "ready"
    /\ pc' = "done"
    /\ ret' = [NoRet EXCEPT !.op = "HasValidPrefix", !.arg = filename,
                            !.ok = HasValidPrefix(filename)]
    /\ UNCHANGED <<fs, PATH, regvars, runvars, mainvars, stdout>>

CallExtractCommandName(binaryPath) ==
    /\ pc = "ready"
    /\ pc' = "done"
    /\ ret' = [NoRet EXCEPT !.op = "ExtractCommandName", !.arg = binaryPath,
                            !.path = ExtractCommandName(binaryPath)]
    /\ UNCHANGED <<fs, PATH, regvars, runvars, mainvars, stdout>>

CallProcessBinaries(binaryPaths) ==
    /\ pc = "ready"
    /\ pc' = "done"
    /\ ret' = [NoRet EXCEPT !.op = "ProcessBinaries", !.binaries = binaryPaths,
                            !.infos = ProcessBinaries(binaryPaths)]
    /\ UNCHANGED <<fs, PATH, regvars, runvars, mainvars, stdout>>

NamingInit ==
    /\ fs = [status |-> AllOk, files |-> NoFiles]
    /\ PATH = ""
    /\ InitProgram

NamingNext ==
    \/ \E filename \in FilenameInputs : CallHasValidPrefix(filename)
    \/ \E binaryPath \in ExtractPathInputs : CallExtractCommandName(binaryPath)
    \/ \E binaryPaths \in PathLists : CallProcessBinaries(binaryPaths)

NamingSpec == NamingInit /\ [][NamingNext]_vars

(***************************************************************************)
(* The enumerator and the list-binaries handler on environments whose      *)
(* search-path directories may be missing or unreadable.                   *)
(***************************************************************************)
\* the most directory entries the environment of a listing holds
MaxListEntries == 2

\* the fallback directory in any status, the PATH directory /a existing,
\* missing or unreadable
ListStatus ==
    { st \in [FsDirs -> DirStatus] : st["."] = "ok" /\ st["/a"] # "uncreatable" }

\* PATH without the fallback directory, and with it after and before /a
ListPathValues == {"/a", "/a:/h/b", "/h/b:/a"}

ListInit ==
    /\ fs \in UNION {Worlds(st, MaxListEntries, DispatchDirs, DispatchNames) :
                        st \in ListStatus}
    /\ PATH \in ListPathValues
    /\ InitProgram

ListNext ==
    \/ CallFindAll(BaseDir)
    \/ CallListBinaries

ListSpec == ListInit /\ [][ListNext]_vars

(***************************************************************************)
(* cmd/master-mold: main and handleCommands, one invocation of the CLI.    *)
(***************************************************************************)
\* the most seconds a child process is followed
MaxElapsed == 3

\* os.Args: no command, a command with and without arguments, the built-in
\* command
OsArgsInputs ==
    { <<"master-mold">>, <<"master-mold", "x">>,
      <<"master-mold", "x", "arg1", "arg2">>, <<"master-mold", "list-binaries">> }

\* main whose RegisterCommands leaves out RegisterSubcommandExecutor
MainStart_NoDelegate ==
    /\ mainpc = "start"
    /\ LET loaded == LoadConfig(MainConfigPaths, configFile)
       IN  /\ configFile' = loaded.world
           /\ IF loaded.err # "nil"
              THEN /\ events' = events \o
                         << Event("LoadConfig", loaded.err, <<>>),
                            Event("log", "Error loading configuration", <<loaded.err>>) >>
                   /\ exitCode' = 1
                   /\ mainpc' = "exited"
                   /\ UNCHANGED <<config, regvars>>
              ELSE /\ events' = events \o <<Event("LoadConfig", "nil", <<>>)>>
                   /\ config' = loaded.config
                   /\ handlers' = [n \in {"list-binaries"} |-> "ListBinariesHandler"]
                   /\ subcommandExecutor' = "nil"
                   /\ mainpc' = "handle"
                   /\ exitCode' = exitCode
    /\ UNCHANGED <<fsvars, pc, ret, call, child, result, osArgs, elapsed, stdout>>

\* main up to the call of handleCommands: the configuration is loaded, the
\* registry created and the commands registered (RegisterCommands); a
\* configuration that cannot be loaded is logged and ends the process
MainStart ==
    /\ mainpc = "start"
    /\ LET loaded == LoadConfig(MainConfigPaths, configFile)
       IN  /\ configFile' = loaded.world
           /\ IF loaded.err # "nil"
              THEN /\ events' = events \o
                         << Event("LoadConfig", loaded.err, <<>>),
                            Event("log", "Error loading configuration", <<loaded.err>>) >>
                   /\ exitCode' = 1
                   /\ mainpc' = "exited"
                   /\ UNCHANGED <<config, regvars>>
              ELSE /\ events' = events \o <<Event("LoadConfig", "nil", <<>>)>>
                   /\ config' = loaded.config
                   /\ handlers' = [n \in {"list-binaries"} |-> "ListBinariesHandler"]
                   /\ subcommandExecutor' = "SubcommandExecutor.Execute"
                   /\ mainpc' = "handle"
                   /\ exitCode' = exitCode
    /\ UNCHANGED <<fsvars, pc, ret, call, child, result, osArgs, elapsed, stdout>>

\* handleCommands that prints the usage message and reports success
HandleCommandsWith_UsageIsSuccess(cfg) ==
    /\ mainpc = "handle"
    /\ pc = "ready"
    /\ IF Len(osArgs) < 2
       THEN /\ stdout' = stdout \o
                  << "Usage: master-mold <command> [options]",
                     "Run 'master-mold list-binaries' to see available commands" >>
            /\ result' = "nil"
            /\ pc' = "done"
            /\ UNCHANGED <<fsvars, ret, regvars, call, events, child, mainvars>>
       ELSE RegistryExecuteWith(cfg, osArgs[2], SubSeq(osArgs, 3, Len(osArgs)))

\* handleCommands(registry) of a registry made with cfg
HandleCommandsWith(cfg) ==
    /\ mainpc = "handle"
    /\ pc = "ready"
    /\ IF Len(osArgs) < 2
       THEN /\ stdout' = stdout \o
                  << "Usage: master-mold <command> [options]",
                     "Run 'master-mold list-binaries' to see available commands" >>
            /\ result' = "no command specified"
            /\ pc' = "done"
            /\ UNCHANGED <<fsvars, ret, regvars, call, events, child, mainvars>>
       ELSE RegistryExecuteWith(cfg, osArgs[2], SubSeq(osArgs, 3, Len(osArgs)))

\* a second passes while the child process runs
Tick ==
    /\ pc = "child"
    /\ child.state = "running"
    /\ elapsed < MaxElapsed
    /\ elapsed' = elapsed + 1
    /\ UNCHANGED <<fsvars, pc, ret, regvars, runvars, osArgs, configFile, config,
                   mainpc, exitCode, stdout>>

\* main that ends with status 0 whatever handleCommands returned
MainExit_AlwaysZero ==
    /\ mainpc = "handle"
    /\ pc = "done"
    /\ mainpc' = "exited"
    /\ events' = events \o <<Event("log", "Command completed successfully", <<>>)>>
    /\ exitCode' = 0
    /\ UNCHANGED <<fsvars, pc, ret, regvars, call, child, result, osArgs, configFile,
                   config, elapsed, stdout>>

\* main after handleCommands returned: an error is logged and the process
\* exits with status 1, else it ends with status 0
MainExit ==
    /\ mainpc = "handle"
    /\ pc = "done"
    /\ mainpc' = "exited"
    /\ IF result # "nil"
       THEN /\ events' = events \o <<Event("log", "Error executing command", <<result>>)>>
            /\ exitCode' = 1
       ELSE /\ events' = events \o <<Event("log", "Command completed successfully", <<>>)>>
            /\ exitCode' = 0
    /\ UNCHANGED <<fsvars, pc, ret, regvars, call, child, result, osArgs, configFile,
                   config, elapsed, stdout>>

\* the fallback directory exists or cannot be created
CliStatus ==
    { st \in [FsDirs -> DirStatus] :
        st["."] = "ok" /\ st["/a"] = "ok" /\ st[BaseDir] \in {"ok", "uncreatable"} }

CliInit ==
    /\ fs \in UNION {Worlds(st, MaxDispatchEntries, DispatchDirs, DispatchNames) :
                        st \in CliStatus}
    /\ PATH \in DispatchPathValues
    /\ osArgs \in OsArgsInputs
    /\ configFile \in ConfigWorlds
    /\ configFile.dir[BaseDir] = "missing" <=> DirNotExist(fs, BaseDir)
    /\ config = NoConfig
    /\ mainpc = "start"
    /\ pc = "ready"
    /\ ret = NoRet
    /\ handlers = << >>
    /\ subcommandExecutor = "nil"
    /\ call = NoCall
    /\ events = << >>
    /\ child = NoChild
    /\ result = "nil"
    /\ exitCode = -1
    /\ elapsed = 0
    /\ stdout = << >>

\* handleCommands(registry)
HandleCommands == HandleCommandsWith(config)

CliNext ==
    \/ MainStart
    \/ HandleCommands
    \/ \E code \in ExitCodes : ChildExit(code)
    \/ Tick
    \/ ExecuteReturn
    \/ MainExit

CliSpec == CliInit /\ [][CliNext]_vars

(***************************************************************************)
(* A registry used over and over: Register, RegisterFunc, Get and Execute  *)
(* in any order.                                                           *)
(***************************************************************************)
\* an executable /a/mm-x on PATH
RegistryWorld ==
    [status |-> AllOk,
     files |-> [NoFiles EXCEPT !["/a"]["mm-x"] = [kind |-> "file", exec |-> TRUE]]]

RegistryInit ==
    /\ fs = RegistryWorld
    /\ PATH = "/a"
    /\ InitProgram

RegistryNext ==
    \/ \E name \in Commands, handler \in Handlers : Register(name, handler)
    \/ \E name \in Commands, fn \in HandlerFuncs : RegisterFunc(name, fn)
    \/ RegisterSubcommandExecutor
    \/ \E name \in Commands : CallGet(name)
    \/ \E name \in Commands, args \in ArgLists : RegistryExecute(name, args)
    \/ \E code \in ExitCodes : ChildExit(code)
    \/ ExecuteReturn
    \/ NextCall

RegistrySpec == RegistryInit /\ [][RegistryNext]_vars

(***************************************************************************)
(* pkg/config: LoadConfig called again and again on the same config paths. *)
(***************************************************************************)
\* the most calls of LoadConfig in a run
MaxLoads == 2

\* the config paths LoadConfig is called with: main's, the second of them
\* alone (an absolute directory, as the tests pass), the two swapped, none
ConfigPathLists ==
    { MainConfigPaths, <<"$HOME/b">>, <<"$HOME/b", "./config">>, <<"/h/b">>, << >> }

CallLoadConfig(configPaths) ==
    /\ mainpc = "none"
    /\ Len(events) < MaxLoads
    /\ LET loaded == LoadConfig(configPaths, configFile)
       IN  /\ configFile' = loaded.world
           /\ config' = loaded.config
           /\ result' = loaded.err
           /\ ret' = [NoRet EXCEPT !.op = "LoadConfig", !.arg = configPaths,
                                   !.before = configFile, !.err = loaded.err]
           /\ events' = events \o <<Event("LoadConfig", loaded.err, configPaths)>>
    /\ UNCHANGED <<fsvars, pc, regvars, call, child, osArgs, mainpc, exitCode,
                   elapsed, stdout>>

ConfigInit ==
    /\ configFile \in ConfigWorlds
    /\ fs = [status |-> [AllOk EXCEPT ![BaseDir] =
                            IF configFile.dir[BaseDir] = "missing"
                            THEN "missing" ELSE "ok"],
             files |-> NoFiles]
    /\ PATH = ""
    /\ config = NoConfig
    /\ pc = "ready"
    /\ ret = NoRet
    /\ handlers = << >>
    /\ subcommandExecutor = "nil"
    /\ call = NoCall
    /\ events = << >>
    /\ child = NoChild
    /\ result = "nil"
    /\ osArgs = << >>
    /\ mainpc = "none"
    /\ exitCode = -1
    /\ elapsed = 0
    /\ stdout = << >>

ConfigNext == \E configPaths \in ConfigPathLists : CallLoadConfig(configPaths)

ConfigSpec == ConfigInit /\ [][ConfigNext]_vars

(***************************************************************************)
(* cmd/azure-devops: groupFieldsByWorkItemType and convertFieldsToPatches. *)
(***************************************************************************)
\* the most fields of a work item
MaxFields == 2

WorkItemTypePath == "/fields/System.WorkItemType"

\* WorkItemField: Op, Path and Value are strings; Value can be empty
FieldOps == {"add", "remove"}
FieldPaths == {"/fields/System.Title", WorkItemTypePath}
FieldValues == {"", "Task", "Bug"}
WorkItemFields == [Op : FieldOps, Path : FieldPaths, Value : FieldValues]

FieldLists == UNION {[1..n -> WorkItemFields] : n \in 0..MaxFields}

\* the variable of a range loop is one variable per iteration (go 1.22 and
\* later in go.mod) or one variable for the whole loop (before)
LoopVarSemantics == {"per-iteration", "per-loop"}

\* groupFieldsByWorkItemType that lets the last work item type field decide
groupFieldsByWorkItemType_LastTypeField(fields) ==
    LET typed == {i \in 1..Len(fields) : fields[i].Path = WorkItemTypePath}
        last == CHOOSE i \in typed : \A j \in typed : j <= i
        found == IF typed = {} THEN "" ELSE fields[last].Value
        workItemType == IF found = "" THEN "Task" ELSE found
    IN  [t \in {workItemType} |-> fields]

\* groupFieldsByWorkItemType: the map from work item type to fields
groupFieldsByWorkItemType(fields) ==
    LET typed == {i \in 1..Len(fields) : fields[i].Path = WorkItemTypePath}
        first == CHOOSE i \in typed : \A j \in typed : i <= j
        found == IF typed = {} THEN "" ELSE fields[first].Value
        workItemType == IF found = "" THEN "Task" ELSE found
    IN  [t \in {workItemType} |-> fields]

\* the address of the loop variable field in iteration i
FieldVar(loopVar, i) == IF loopVar = "per-iteration" THEN <<"field", i>> ELSE <<"field", 0>>

\* convertFieldsToPatches: the patches, whose Op and Path are pointers (to the
\* variable op of the iteration, to the Path of the loop variable field), and
\* the memory they point into when the function returns
convertFieldsToPatches(fields, loopVar) ==
    LET n == Len(fields)
        addrs == {<<"op", i>> : i \in 1..n} \cup {FieldVar(loopVar, i) : i \in 1..n}
    IN  [patches |-> [i \in 1..n |->
                        [Op |-> <<"op", i>>, Path |-> FieldVar(loopVar, i),
                         Value |-> fields[i].Value]],
         mem |-> [a \in addrs |->
                    IF a[1] = "op" THEN "add"
                    ELSE IF a[2] = 0 THEN fields[n].Path ELSE fields[a[2]].Path]]

CallGroupFieldsByWorkItemType(fields) ==
    /\ pc = "ready"
    /\ pc' = "done"
    /\ ret' = [NoRet EXCEPT !.op = "groupFieldsByWorkItemType", !.arg = fields,
                            !.infos = groupFieldsByWorkItemType(fields)]
    /\ UNCHANGED <<fsvars, regvars, runvars, mainvars, stdout>>

CallConvertFieldsToPatches(fields, loopVar) ==
    /\ pc = "ready"
    /\ pc' = "done"
    /\ LET r == convertFieldsToPatches(fields, loopVar)
       IN  ret' = [NoRet EXCEPT !.op = "convertFieldsToPatches", !.arg = fields,
                               !.infos = r.patches, !.before = r.mem]
    /\ UNCHANGED <<fsvars, regvars, runvars, mainvars, stdout>>

WorkItemInit ==
    /\ fs = [status |-> AllOk, files |-> NoFiles]
    /\ PATH = ""
    /\ InitProgram

WorkItemNext ==
    \/ \E fields \in FieldLists : CallGroupFieldsByWorkItemType(fields)
    \/ \E fields \in FieldLists, loopVar \in LoopVarSemantics :
          CallConvertFieldsToPatches(fields, loopVar)

WorkItemSpec == WorkItemInit /\ [][WorkItemNext]_vars

(***************************************************************************)
(* Vocabulary of the properties.                                           *)
(***************************************************************************)
\* the directories PATH lists, in order; LookPath reads an empty element as "."
PathDirs ==
    LET elems == SplitList(PATH)
    IN  [i \in 1..Len(elems) |-> IF elems[i] = "" THEN "." ELSE elems[i]]

PathDirSet == {PathDirs[i] : i \in 1..Len(PathDirs)}

\* dir holds a regular file called name with an execute permission bit
ExecFileAt(w, dir, name) ==
    LET fi == Stat(w, Join(dir, name))
    IN  fi.err = "nil" /\ fi.regular /\ fi.exec

PrefixSet == {ValidPrefixes[i] : i \in 1..Len(ValidPrefixes)}

\* the position in PATH of the leftmost directory that holds an executable
\* regular file called name, 0 when no PATH directory does
LeftmostHit(w, name) ==
    LET hits == {i \in 1..Len(PathDirs) : ExecFileAt(w, PathDirs[i], name)}
    IN  IF hits = {} THEN 0 ELSE CHOOSE i \in hits : \A j \in hits : i <= j

\* PATH lookup of name succeeds: its leftmost hit is an absolute directory
PathLookupFinds(w, name) ==
    LeftmostHit(w, name) # 0 /\ IsAbs(PathDirs[LeftmostHit(w, name)])

FoundExecutable == ret.op = "FindExecutable" /\ ret.err = "nil"

(***************************************************************************)
(* C1 -- search-path precedence over the fallback directory.               *)
(***************************************************************************)
\* C1 as stated: whenever some PATH directory holds an executable file
\* mm-<cmd> or master-mold-<cmd>, FindExecutable succeeds with a path inside
\* a PATH directory.
C1_AnyPathDirWins ==
    (/\ ret.op = "FindExecutable"
     /\ \E i \in 1..Len(PathDirs), q \in PrefixSet :
           ExecFileAt(fs, PathDirs[i], q \o ret.arg))
    => (ret.err = "nil" /\ Dir(ret.path) \in PathDirSet)

\* C1 (amended): whenever, for some recognized prefix, the leftmost PATH
\* directory holding an executable regular file <prefix><cmd> is an absolute
\* directory, FindExecutable succeeds with the path of an executable regular
\* file inside a PATH directory, and inside the fallback directory only if
\* PATH lists the fallback directory, whatever the fallback directory holds.
C1_PathPrecedence ==
    (/\ ret.op = "FindExecutable"
     /\ \E q \in PrefixSet : PathLookupFinds(fs, q \o ret.arg))
    => /\ ret.err = "nil"
       /\ Dir(ret.path) \in PathDirSet
       /\ IsAbs(ret.path)
       /\ ExecFileAt(fs, Dir(ret.path), Base(ret.path))
       /\ (BaseDir \notin PathDirSet => Dir(ret.path) # BaseDir)

\* C1 witness: an executable mm-x in a PATH directory and in the fallback
\* directory, which PATH does not list; the PATH one was returned.
C1_Witness ==
    /\ FoundExecutable
    /\ ret.arg = "x"
    /\ BaseDir \notin PathDirSet
    /\ ExecFileAt(fs, "/a", "mm-x")
    /\ ExecFileAt(fs, BaseDir, "mm-x")
    /\ ret.path = "/a/mm-x"

(***************************************************************************)
(* C2 -- the order in which the search-path and the prefixes are tried.    *)
(***************************************************************************)
AllPathDirsAbsolute == \A i \in 1..Len(PathDirs) : IsAbs(PathDirs[i])

\* the positions in PATH of the directories that hold an executable regular
\* file <prefix><cmd> for some recognized prefix
CandidateDirs(w, cmd) ==
    {i \in 1..Len(PathDirs) :
        \E q \in PrefixSet : ExecFileAt(w, PathDirs[i], q \o cmd)}

\* C2 as stated (on a PATH of absolute directories): the result lies in the
\* leftmost PATH directory that holds an executable <prefix><cmd>; the
\* prefix order only decides between two candidates of that directory.
C2_LeftmostDirWins ==
    (/\ ret.op = "FindExecutable"
     /\ AllPathDirsAbsolute
     /\ CandidateDirs(fs, ret.arg) # {})
    => LET first == CHOOSE i \in CandidateDirs(fs, ret.arg) :
                       \A j \in CandidateDirs(fs, ret.arg) : i <= j
       IN  /\ ret.err = "nil"
           /\ Dir(ret.path) = PathDirs[first]

\* C2 (amended): the candidate names are looked up in prefix order, each
\* over the whole search-path. The result is mm-<cmd> from the leftmost PATH
\* directory holding an executable regular file mm-<cmd>, whichever
\* directories hold master-mold-<cmd>; master-mold-<cmd>, from the leftmost
\* directory holding it, is the result only when the lookup of mm-<cmd>
\* finds nothing. A lookup finds nothing when no PATH directory holds the
\* file or when the leftmost one that does is a relative PATH element.
C2_PrefixMajorOrder ==
    ret.op = "FindExecutable" =>
        LET short == MMPrefix \o ret.arg
            long == MasterMoldPrefix \o ret.arg
        IN  IF PathLookupFinds(fs, short)
            THEN /\ ret.err = "nil"
                 /\ ret.path = Join(PathDirs[LeftmostHit(fs, short)], short)
            ELSE IF PathLookupFinds(fs, long)
            THEN /\ ret.err = "nil"
                 /\ ret.path = Join(PathDirs[LeftmostHit(fs, long)], long)
            ELSE ret.err = "nil" => Dir(ret.path) = BaseDir

\* C2 witness: PATH = /a:/h/b, /a holds only master-mold-x and /h/b only
\* mm-x; the result is /h/b/mm-x, from the second directory.
C2_Witness ==
    /\ FoundExecutable
    /\ ret.arg = "x"
    /\ PATH = "/a:/h/b"
    /\ ExecFileAt(fs, "/a", "master-mold-x")
    /\ ~ExecFileAt(fs, "/a", "mm-x")
    /\ ExecFileAt(fs, BaseDir, "mm-x")
    /\ ret.path = "/h/b/mm-x"

(***************************************************************************)
(* C3 -- not found.                                                        *)
(***************************************************************************)
\* C3 (on a PATH of absolute directories): FindExecutable fails, with an
\* error that names the command, if and only if neither a PATH directory nor
\* the fallback directory holds an executable file mm-<cmd> or
\* master-mold-<cmd>.
C3_NotFoundIff ==
    (ret.op = "FindExecutable" /\ AllPathDirsAbsolute) =>
        LET candidate ==
                \E d \in PathDirSet \cup {BaseDir}, q \in PrefixSet :
                    ExecFileAt(fs, d, q \o ret.arg)
        IN  /\ ret.err # "nil" <=> ~candidate
            /\ ret.err # "nil" => ret.err = "subcommand '" \o ret.arg \o "' not found"

(***************************************************************************)
(* C8 -- what a directory scan returns.                                    *)
(***************************************************************************)
Range(seq) == {seq[i] : i \in 1..Len(seq)}

\* the regular files directly inside dir that carry a recognized prefix and
\* an execute permission bit
RegularMatches(w, dir) ==
    { Join(dir, n) : n \in
        { m \in FileNames :
            /\ w.files[dir][m].kind = "file"
            /\ w.files[dir][m].exec
            /\ (HasPrefix(m, "mm-") \/ HasPrefix(m, "master-mold-")) } }

\* C8: the paths a scan of a readable directory returns are exactly the
\* regular files directly inside it that have a recognized prefix and an
\* execute permission bit; nothing that is not a regular file is returned.
C8_ScanReturnsRegularFiles ==
    (/\ ret.op = "FindInDirectory"
     /\ ret.err = "nil"
     /\ StatusOf(fs, ret.arg) = "ok")
    => Range(ret.binaries) = RegularMatches(fs, ret.arg)

(***************************************************************************)
(* C9 -- FindAll concatenates, the fallback directory first.               *)
(***************************************************************************)
\* what the scan of the i-th element of PATH contributes
Segment(w, i) ==
    LET r == FindInDirectory(w, Split(PATH, ":")[i])
    IN  IF r.err = "nil" THEN r.binaries ELSE <<>>

\* the number of paths the first i elements of PATH contribute
RECURSIVE SegmentsLen(_, _)
SegmentsLen(w, i) ==
    IF i = 0 THEN 0 ELSE SegmentsLen(w, i - 1) + Len(Segment(w, i))

\* C9: the list FindAll returns is the matches of the fallback directory
\* followed by those of each PATH element in PATH order, each group at its
\* place and complete, nothing else and nothing removed.
C9_Concatenation ==
    (ret.op = "FindAll" /\ ret.err = "nil") =>
        LET base == FindInDirectory(fs, ret.arg).binaries
            n == Len(Split(PATH, ":"))
        IN  /\ Len(ret.binaries) = Len(base) + SegmentsLen(fs, n)
            /\ \A k \in 1..Len(base) : ret.binaries[k] = base[k]
            /\ \A i \in 1..n : \A k \in 1..Len(Segment(fs, i)) :
                  ret.binaries[Len(base) + SegmentsLen(fs, i - 1) + k]
                      = Segment(fs, i)[k]

\* C9 witness: PATH = /a:/h/b with an executable mm-x in /a and in the
\* fallback directory /h/b: the fallback's file is listed first and again at
\* its place in PATH, and the same command name appears from two directories.
C9_Witness ==
    /\ ret.op = "FindAll"
    /\ PATH = "/a:/h/b"
    /\ ret.binaries = <<"/h/b/mm-x", "/a/mm-x", "/h/b/mm-x">>

(***************************************************************************)
(* C10 -- FindAll makes sure that the fallback directory exists.           *)
(***************************************************************************)
\* no scanned directory holds an entry with a recognized prefix
NothingToFind ==
    \A d \in {ret.arg} \cup Range(Split(PATH, ":")) : \A n \in FileNames :
        (d \in FsDirs /\ fs.files[d][n] # None) => ~HasValidPrefix(n)

\* C10: after a successful FindAll the fallback directory exists, a missing
\* one having been created; when it cannot be created the call returns an
\* error and no list and leaves the filesystem as it was; with nothing to
\* find a successful call returns no entry.
C10_EnsuresBaseDir ==
    ret.op = "FindAll" =>
        /\ ret.err = "nil" => fs.status[ret.arg] = "ok"
        /\ ret.before = "missing" => (ret.err = "nil" /\ fs.status[ret.arg] = "ok")
        /\ ret.before = "uncreatable" =>
              /\ ret.err = "failed to create base directory"
              /\ ret.binaries = <<>>
              /\ fs.status[ret.arg] = "uncreatable"
        /\ (ret.err = "nil" /\ NothingToFind) => ret.binaries = <<>>

\* C10 witness: the fallback directory was missing, FindAll created it and
\* returned an empty list.
C10_Witness ==
    /\ ret.op = "FindAll"
    /\ ret.before = "missing"
    /\ fs.status[ret.arg] = "ok"
    /\ ret.err = "nil"
    /\ ret.binaries = <<>>

(***************************************************************************)
(* Vocabulary of the dispatch properties.                                  *)
(***************************************************************************)
Dispatched == pc = "done" /\ call.op = "Registry.Execute"

Registered(name) == name \in DOMAIN handlers

EventsOf(kind) == {i \in 1..Len(events) : events[i].ev = kind}

(***************************************************************************)
(* C4 -- neither a handler nor a delegate.                                 *)
(***************************************************************************)
\* C4: Registry.Execute of a name without handler on a registry without
\* delegate returns an error, never success, and neither searches the
\* filesystem nor launches a process.
C4_NoDelegateIsError ==
    (Dispatched /\ ~Registered(call.name) /\ subcommandExecutor = "nil")
    => /\ result # "nil"
       /\ EventsOf("locate") = {}
       /\ EventsOf("launch") = {}

(***************************************************************************)
(* C5 -- a registered handler is the whole dispatch.                       *)
(***************************************************************************)
\* C5: Registry.Execute of a registered name invokes the registered handler
\* exactly once with the arguments unchanged and returns the handler's
\* result; the delegate, the locator and the process runner are not invoked.
C5_HandlerOnly ==
    (Dispatched /\ Registered(call.name)) =>
        /\ events = <<Event("handler", handlers[call.name], call.args)>>
        /\ result = HandlerExecute(handlers[call.name], call.args)
        /\ child = NoChild

\* C5 witness: x has a failing handler, the delegate is configured and an
\* executable /a/mm-x is on PATH; the dispatch returned the handler's error.
C5_Witness ==
    /\ Dispatched
    /\ call.name = "x"
    /\ call.args = <<"arg1", "arg2">>
    /\ Registered("x")
    /\ handlers["x"] = "failHandler"
    /\ subcommandExecutor # "nil"
    /\ PATH = "/a"
    /\ ExecFileAt(fs, "/a", "mm-x")
    /\ result = "handler failed"

(***************************************************************************)
(* C6 -- the delegate: locate, launch, wait.                               *)
(***************************************************************************)
\* C6: Registry.Execute of a name without handler, with the delegate
\* configured, calls the delegate once with (name, args); the delegate first
\* locates the binary and then launches the path the locator resolved, once,
\* with args unchanged; it returns only after the child has exited, and with
\* success when the child exited with status 0.
C6_DelegateLocatesLaunchesWaits ==
    /\ (Dispatched /\ ~Registered(call.name) /\ subcommandExecutor # "nil") =>
          LET found == FindExecutable(fs, call.name, BaseDir)
          IN  /\ Len(events) >= 2
              /\ events[1] = Event("delegate", call.name, call.args)
              /\ events[2] = Event("locate", call.name, <<>>)
              /\ EventsOf("delegate") = {1}
              /\ EventsOf("locate") = {2}
              /\ EventsOf("launch") \subseteq {3}
              /\ EventsOf("handler") = {}
              /\ Len(events) >= 3 =>
                    /\ found.err = "nil"
                    /\ events[3] = Event("launch", found.path, call.args)
              /\ child.state # "none" =>
                    /\ child.state = "exited"
                    /\ child.path = found.path
                    /\ child.args = call.args
                    /\ EventsOf("exit") = {4}
                    /\ EventsOf("return") = {5}
              /\ (child.state = "exited" /\ child.code = 0) => result = "nil"
    /\ child.state = "running" => pc = "child"

\* C6 witness: x has no handler, the delegate resolved it to /a/mm-x and
\* launched it with both arguments; the child exited with status 0 and the
\* dispatch returned success.
C6_Witness ==
    /\ Dispatched
    /\ ~Registered("x")
    /\ call.name = "x"
    /\ call.args = <<"arg1", "arg2">>
    /\ subcommandExecutor # "nil"
    /\ child = [state |-> "exited", path |-> "/a/mm-x",
                args |-> <<"arg1", "arg2">>, code |-> 0]
    /\ Len(events) = 5
    /\ result = "nil"

(***************************************************************************)
(* C7 -- the result of the process runner.                                 *)
(***************************************************************************)
\* the cause of a failed binary.Execute of path, as the filesystem and the
\* child determine it
FailureCauses(path) ==
    IF child.state = "exited" THEN {"exit status " \o ToString(child.code)}
    ELSE IF Stat(fs, path).err = "ENOENT" THEN {"no such file or directory"}
    ELSE IF ~ExecFileAt(fs, Dir(path), Base(path)) THEN {"permission denied"}
    ELSE {"exec format error"}

\* C7: binary.Execute(path, args) returns success exactly when the child
\* was launched and exited with status 0; a non-zero exit and a failure to
\* launch are returned as an error that names the path and wraps the cause.
C7_RunnerResult ==
    (pc = "done" /\ call.op = "binary.Execute") =>
        /\ result = "nil" <=>
              (child.state = "exited" /\ child.code = 0 /\ child.path = call.name)
        /\ result # "nil" =>
              \E cause \in FailureCauses(call.name) :
                  result = "failed to execute binary '" \o call.name \o "': " \o cause
        /\ child.state # "none" => child.state = "exited"

\* C7 witness: the child of /a/mm-x exited with status 1 and the runner
\* returned the wrapped error.
C7_Witness ==
    /\ pc = "done"
    /\ call.op = "binary.Execute"
    /\ child.state = "exited"
    /\ child.code = 1
    /\ result = "failed to execute binary '/a/mm-x': exit status 1"

\* C7 witness of a launch failure: /a/mm-x does not exist.
C7_WitnessLaunchFailure ==
    /\ pc = "done"
    /\ call.op = "binary.Execute"
    /\ child.state = "none"
    /\ result = "failed to execute binary '/a/mm-x': no such file or directory"

(***************************************************************************)
(* C12 -- ProcessBinaries: one entry per command name, the first path.     *)
(***************************************************************************)
\* the position in paths of the first path whose command name is name
FirstIndexOf(paths, name) ==
    CHOOSE i \in 1..Len(paths) :
        /\ ExtractCommandName(paths[i]) = name
        /\ \A j \in 1..(i - 1) : ExtractCommandName(paths[j]) # name

\* C12: ProcessBinaries(paths) yields exactly one entry per distinct command
\* name occurring in paths (names after prefix stripping), each bound to the
\* first path of the input that has that name, in the order in which the
\* names first occur in the input.
C12_OnePerName ==
    ret.op = "ProcessBinaries" =>
        LET paths == ret.binaries
            infos == ret.infos
        IN  /\ {infos[i].Name : i \in 1..Len(infos)}
                  = {ExtractCommandName(paths[i]) : i \in 1..Len(paths)}
            /\ \A i, j \in 1..Len(infos) :
                  i # j => infos[i].Name # infos[j].Name
            /\ \A i \in 1..Len(infos) :
                  infos[i].FullPath = paths[FirstIndexOf(paths, infos[i].Name)]
            /\ \A i, j \in 1..Len(infos) :
                  i < j => FirstIndexOf(paths, infos[i].Name)
                              < FirstIndexOf(paths, infos[j].Name)

\* C12 witness: [/a/mm-x, /b/mm-x, /c/mm-y] gave x bound to /a/mm-x and y
\* bound to /c/mm-y.
C12_Witness ==
    /\ ret.op = "ProcessBinaries"
    /\ ret.binaries = <<"/a/mm-x", "/b/mm-x", "/c/mm-y">>
    /\ ret.infos = << [Name |-> "x", FullPath |-> "/a/mm-x"],
                      [Name |-> "y", FullPath |-> "/c/mm-y"] >>

(***************************************************************************)
(* C14 -- HasValidPrefix.                                                  *)
(***************************************************************************)
\* s is q followed by some suffix of s
StartsWith(s, q) ==
    \E k \in 1..(Len(s) + 1) : s = q \o SubSeq(s, k, Len(s))

\* C14: for every file name f, the empty one included, HasValidPrefix(f) is
\* true if and only if f starts with mm- or with master-mold-.
C14_HasValidPrefixIff ==
    ret.op = "HasValidPrefix" =>
        (ret.ok <=> (StartsWith(ret.arg, "mm-") \/ StartsWith(ret.arg, "master-mold-")))

\* C14 witness: the empty file name was rejected.
C14_Witness ==
    /\ ret.op = "HasValidPrefix"
    /\ ret.arg = ""
    /\ ~ret.ok

\* C14 witness of the long prefix: master-mold-x was accepted.
C14_WitnessLongPrefix ==
    /\ ret.op = "HasValidPrefix"
    /\ ret.arg = "master-mold-x"
    /\ ret.ok

(***************************************************************************)
(* C15 -- ExtractCommandName.                                              *)
(***************************************************************************)
\* C15: ExtractCommandName(p) is the base name of p without its first
\* matching recognized prefix, removed once, and the base name itself when
\* it starts with no recognized prefix; so ExtractCommandName(dir/q+c) = c
\* for every command name c without separator and every recognized prefix q.
C15_StripsFirstPrefixOnce ==
    ret.op = "ExtractCommandName" =>
        LET base == Base(ret.arg)
        IN  /\ ret.path =
                  IF StartsWith(base, "mm-") THEN SubSeq(base, 4, Len(base))
                  ELSE IF StartsWith(base, "master-mold-") THEN SubSeq(base, 13, Len(base))
                  ELSE base
            /\ \A dir \in ExtractDirs, q \in {"mm-", "master-mold-"},
                  c \in ExtractCommands :
                  ret.arg = dir \o "/" \o q \o c => ret.path = c

\* C15 witness: /a/mm-mm-x gave mm-x, the prefix removed once.
C15_Witness ==
    /\ ret.op = "ExtractCommandName"
    /\ ret.arg = "/a/mm-mm-x"
    /\ ret.path = "mm-x"

(***************************************************************************)
(* C11 -- a search-path directory never makes FindAll fail.                *)
(***************************************************************************)
\* C11: when the fallback directory exists or can be created and can be
\* read, FindAll succeeds whatever the PATH directories are: a missing or
\* unreadable PATH directory contributes no path, and the matches of every
\* readable PATH directory and of the fallback directory are returned.
C11_PathDirsNeverFail ==
    (ret.op = "FindAll" /\ ret.before \in {"ok", "missing"}) =>
        /\ ret.err = "nil"
        /\ \A i \in 1..Len(ret.binaries) :
              StatusOf(fs, Dir(ret.binaries[i])) = "ok"
        /\ \A d \in {ret.arg} \cup Range(Split(PATH, ":")) :
              StatusOf(fs, d) = "ok" => RegularMatches(fs, d) \subseteq Range(ret.binaries)

\* C11 witness: PATH = /a:/h/b, /a is unreadable and holds an executable
\* mm-x; FindAll succeeded and returned master-mold-x of /h/b, as the
\* fallback directory and as a PATH directory.
C11_Witness ==
    /\ ret.op = "FindAll"
    /\ PATH = "/a:/h/b"
    /\ fs.status["/a"] = "unreadable"
    /\ fs.files["/a"]["mm-x"] = [kind |-> "file", exec |-> TRUE]
    /\ ret.err = "nil"
    /\ ret.binaries = <<"/h/b/master-mold-x", "/h/b/master-mold-x">>

\* C11 witness of a missing PATH directory.
C11_WitnessMissing ==
    /\ ret.op = "FindAll"
    /\ PATH = "/a:/h/b"
    /\ fs.status["/a"] = "missing"
    /\ ret.err = "nil"
    /\ ret.binaries = <<"/h/b/mm-x", "/h/b/mm-x">>

(***************************************************************************)
(* C13 -- which entry of a command the listing keeps.                      *)
(***************************************************************************)
Listed == pc = "done" /\ call.op = "ListBinariesHandler.Execute" /\ result = "nil"

\* the paths the listing printed for the command called name
ListedPathsOf(name) ==
    { p \in {Join(d, q \o name) : d \in DispatchDirs, q \in PrefixSet} :
        \E i \in 1..Len(stdout) :
            stdout[i] = FormatBinaryInfo([Name |-> name, FullPath |-> p]) }

\* C13 (PATH not listing the fallback directory): when a PATH directory and
\* the fallback directory both hold an executable file of the command, the
\* one entry list-binaries prints for the command is the file of the PATH
\* directory.
C13_PathEntryKept ==
    (Listed /\ BaseDir \notin PathDirSet) =>
        \A name \in Commands :
            (/\ \E d \in PathDirSet, q \in PrefixSet : ExecFileAt(fs, d, q \o name)
             /\ \E q \in PrefixSet : ExecFileAt(fs, BaseDir, q \o name))
            => \E p \in ListedPathsOf(name) :
                  /\ ListedPathsOf(name) = {p}
                  /\ Dir(p) \in PathDirSet

(***************************************************************************)
(* Vocabulary of the properties of one invocation of the CLI.              *)
(***************************************************************************)
Exited == mainpc = "exited"

\* the configuration could not be loaded
LoadFailed ==
    \E i \in 1..Len(events) : events[i].ev = "LoadConfig" /\ events[i].name # "nil"

\* the events that begin a Registry.Execute
DispatchEvents ==
    EventsOf("handler") \cup EventsOf("delegate") \cup EventsOf("ExecuteSubcommand")

UsageLines ==
    << "Usage: master-mold <command> [options]",
       "Run 'master-mold list-binaries' to see available commands" >>

LastEvent == events[Len(events)]

(***************************************************************************)
(* C16 -- no command.                                                      *)
(***************************************************************************)
\* C16: invoked with fewer than two process arguments, handleCommands
\* prints the usage message to standard output and returns the error
\* "no command specified", the process exits with a non-zero status, and
\* Registry.Execute is never called.
C16_NoCommandUsage ==
    (Len(osArgs) < 2 /\ mainpc # "none") =>
        /\ call = NoCall
        /\ DispatchEvents = {}
        /\ pc = "done" => (stdout = UsageLines /\ result = "no command specified")
        /\ (Exited /\ ~LoadFailed) => (pc = "done" /\ exitCode = 1)

\* C16 witness: master-mold without arguments printed the usage message and
\* exited with status 1.
C16_Witness ==
    /\ Exited
    /\ osArgs = <<"master-mold">>
    /\ ~LoadFailed
    /\ stdout = UsageLines
    /\ result = "no command specified"
    /\ exitCode = 1

(***************************************************************************)
(* C17 -- every error ends the process with exit code 1.                   *)
(***************************************************************************)
\* C17: a configuration that cannot be loaded, a command that is neither
\* registered nor found as a binary, a child that cannot be launched or
\* exits with a non-zero status, and a failing handler each end the process
\* with exit code 1 after the error was logged; the exit code is 0 only when
\* the dispatch returned success.
C17_ErrorsExitOne ==
    Exited =>
        LET dispatched == call.op = "Registry.Execute"
            notFound ==
                /\ dispatched
                /\ ~Registered(call.name)
                /\ FindExecutable(fs, call.name, GetExpandedBaseDir(config)).err # "nil"
        IN  /\ exitCode \in {0, 1}
            /\ exitCode = 0 <=> (~LoadFailed /\ dispatched /\ result = "nil")
            /\ LoadFailed =>
                  /\ exitCode = 1
                  /\ LastEvent.ev = "log"
                  /\ LastEvent.name = "Error loading configuration"
            /\ (~LoadFailed /\ result # "nil") =>
                  /\ exitCode = 1
                  /\ LastEvent = Event("log", "Error executing command", <<result>>)
            /\ notFound => exitCode = 1
            /\ (dispatched /\ ~Registered(call.name) /\ child.state = "none") => exitCode = 1
            /\ (child.state = "exited" /\ child.code # 0) => exitCode = 1
            /\ (dispatched /\ Registered(call.name) /\ fs.status[BaseDir] # "ok")
                  => exitCode = 1

\* C17 witness: the command x is not registered and no binary of it exists;
\* the error was logged and the process exited with status 1.
C17_Witness ==
    /\ Exited
    /\ call.op = "Registry.Execute"
    /\ call.name = "x"
    /\ result = "subcommand 'x' not found: subcommand 'x' not found"
    /\ LastEvent = Event("log", "Error executing command", <<result>>)
    /\ exitCode = 1

\* C17 witness of a child that exited with status 1.
C17_WitnessChildFailed ==
    /\ Exited
    /\ child.state = "exited"
    /\ child.code = 1
    /\ exitCode = 1

\* C17 witness of a failing handler: list-binaries without a fallback
\* directory that can be created.
C17_WitnessHandlerFailed ==
    /\ Exited
    /\ call.name = "list-binaries"
    /\ result # "nil"
    /\ exitCode = 1

(***************************************************************************)
(* C18 -- the configured timeout is not applied.                           *)
(***************************************************************************)
\* the steps of one invocation, with cfg as the configuration of the
\* registry
CliStepWith(cfg) ==
    \/ MainStart
    \/ HandleCommandsWith(cfg)
    \/ \E code \in ExitCodes : ChildExit(code)
    \/ Tick
    \/ ExecuteReturn
    \/ MainExit

\* every Timeout a configuration can hold
AllTimeouts == TimeoutValues \cup {DefaultConfig.Timeout}

C19_ExactlyOneDispatch ==
    Exited => Cardinality(DispatchEvents) = 1

\* C19 (amended): the configuration load is the first operation and happens
\* once; at most one Registry.Execute dispatch happens, after the load, and
\* exactly one when the configuration was loaded and a command was given,
\* none otherwise; at most one lookup and at most one launch happen, the
\* parent is blocked while the child runs, and nothing follows a failed
\* lookup or a failed execution but the log of the error.
C19_OneOperationAtATime ==
    /\ mainpc \in {"handle", "exited"} => EventsOf("LoadConfig") = {1}
    /\ mainpc = "start" => events = <<>>
    /\ Cardinality(DispatchEvents) <= 1
    /\ Cardinality(EventsOf("locate")) <= 1
    /\ Cardinality(EventsOf("launch")) <= 1
    /\ \A i \in DispatchEvents :
          /\ i = 2
          /\ events[1] = Event("LoadConfig", "nil", <<>>)
    /\ Exited =>
          (Cardinality(DispatchEvents) = 1 <=> (~LoadFailed /\ Len(osArgs) >= 2))
    /\ child.state = "running" => (pc = "child" /\ ~Exited)
    /\ (Exited /\ ~LoadFailed /\ result # "nil" /\ Len(osArgs) >= 2) =>
          LET n == Len(events)
          IN  /\ events[n].ev = "log"
              /\ events[n - 1].ev \in {"handler", "locate", "launch", "return"}
              /\ \A i, j \in 1..n : i # j => events[i].ev # events[j].ev

\* C19 witness: the lookup of x failed; the invocation loaded the
\* configuration, dispatched once, looked once, logged the error and exited.
C19_Witness ==
    /\ Exited
    /\ exitCode = 1
    /\ Len(events) = 4
    /\ events[1].ev = "LoadConfig"
    /\ events[2] = Event("delegate", "x", <<"arg1", "arg2">>)
    /\ events[3] = Event("locate", "x", <<>>)
    /\ events[4].ev = "log"

(***************************************************************************)
(* C20 -- Get returns the handler registered last; nothing is removed.     *)
(***************************************************************************)
\* every handler a registration can store
AllHandlers == Handlers \cup {HandlerFunc(fn) : fn \in HandlerFuncs}

NotFound == [handler |-> "nil", ok |-> FALSE]

\* the step registers handler h under the name n
Registers(n, h) ==
    \/ h \in Handlers /\ Register(n, h)
    \/ \E fn \in HandlerFuncs : h = HandlerFunc(fn) /\ RegisterFunc(n, fn)

\* C20: Get finds nothing in a new registry; after a registration of h
\* under n, Get(n) returns (h, true) until the next registration, also of a
\* name that had a handler; only a registration of n changes what Get(n)
\* returns, so Get(n) returns the handler registered last and (nil, false)
\* exactly for a name never registered; no step of Register, RegisterFunc,
\* Get or Execute removes a registration; Get called on its own returns
\* what the registry holds.
C20_GetReturnsLatest ==
    /\ \A n \in Commands : Get(n) = NotFound
    /\ [](ret.op = "Register" => Get(ret.arg) = [handler |-> ret.path, ok |-> TRUE])
    /\ [](ret.op = "Get" => Get(ret.arg) = [handler |-> ret.path, ok |-> ret.ok])
    /\ [][\A n \in Commands :
             /\ Get(n).ok => Get(n)'.ok
             /\ \A h \in AllHandlers :
                   Registers(n, h) => Get(n)' = [handler |-> h, ok |-> TRUE]
             /\ Get(n)' # Get(n) =>
                   \E h \in AllHandlers :
                       /\ Registers(n, h)
                       /\ Get(n)' = [handler |-> h, ok |-> TRUE]
             /\ CallGet(n) =>
                   /\ ret'.ok = (n \in DOMAIN handlers)
                   /\ ret'.path = IF n \in DOMAIN handlers THEN handlers[n] ELSE "nil"
         ]_vars

\* C20 witness: Execute of x ran the failing handler x then had; x was
\* registered again with okHandler, and Get(x) returned (okHandler, true).
C20_Witness ==
    /\ call = [op |-> "Registry.Execute", name |-> "x", args |-> <<>>]
    /\ result = "handler failed"
    /\ ret.op = "Get"
    /\ ret.arg = "x"
    /\ ret.ok
    /\ ret.path = "okHandler"
    /\ Get("y") = NotFound

(***************************************************************************)
(* C21 -- LoadConfig writes the default file when no config path has one.  *)
(***************************************************************************)
\* the last call was LoadConfig with a non-empty list of config paths none
\* of which held a config file
LoadedWithoutFile ==
    /\ ret.op = "LoadConfig"
    /\ ret.arg # << >>
    /\ \A i \in 1..Len(ret.arg) :
          ConfigFileIn(ret.before, AbsPathify(ret.arg[i])) = NoConfigFile

\* C21: LoadConfig with a non-empty list of config paths none of which holds
\* a config file succeeds, returns the default configuration and leaves
\* config.toml in the first config path; the next LoadConfig with the same
\* paths succeeds, changes no file and returns the same values.
C21_DefaultCreatedThenRead ==
    /\ [](LoadedWithoutFile =>
            /\ result = "nil"
            /\ config = DefaultConfig
            /\ ConfigFileIn(configFile, AbsPathify(ret.arg[1])) # NoConfigFile)
    /\ [][(LoadedWithoutFile /\ CallLoadConfig(ret.arg)) =>
            /\ result' = "nil"
            /\ config' = config
            /\ configFile' = configFile]_vars

(***************************************************************************)
(* C22 -- FindAll returns absolute paths.                                  *)
(***************************************************************************)
\* C22: every path FindAll(fallbackDir) returns is absolute, whatever the
\* PATH variable holds (relative and empty elements included).
C22_FindAllAbsolute ==
    ret.op = "FindAll" =>
        \A i \in 1..Len(ret.binaries) : IsAbs(ret.binaries[i])

(***************************************************************************)
(* C23 -- mm-<cmd> is tried before master-mold-<cmd>.                      *)
(***************************************************************************)
\* C23 as stated: FindExecutable never returns master-mold-<cmd> of a
\* location (a PATH directory or the fallback directory) that also holds an
\* executable file mm-<cmd>.
C23_MmWinsInLocation ==
    FoundExecutable =>
        (Base(ret.path) = MasterMoldPrefix \o ret.arg =>
            ~ExecFileAt(fs, Dir(ret.path), MMPrefix \o ret.arg))

\* C23 (amended): master-mold-<cmd> is returned only when the PATH lookup
\* of mm-<cmd> finds nothing; it is returned from a location that also holds
\* an executable file mm-<cmd> only when a relative or empty PATH element
\* holds the leftmost mm-<cmd>; and the fallback directory's
\* master-mold-<cmd>, when no PATH lookup finds it, is returned only if
\* mm-<cmd> is absent or without execute permission bits there.
C23_PrefixOrder ==
    FoundExecutable =>
        LET mm == MMPrefix \o ret.arg
            ml == MasterMoldPrefix \o ret.arg
        IN  /\ Base(ret.path) = ml => ~PathLookupFinds(fs, mm)
            /\ (Base(ret.path) = ml /\ ExecFileAt(fs, Dir(ret.path), mm)) =>
                   /\ LeftmostHit(fs, mm) # 0
                   /\ ~IsAbs(PathDirs[LeftmostHit(fs, mm)])
            /\ (ret.path = Join(BaseDir, ml) /\ ~PathLookupFinds(fs, ml)) =>
                   ~IsExecutable(fs, Join(BaseDir, mm))
            /\ (ExecFileAt(fs, BaseDir, mm) /\ LeftmostHit(fs, mm) = 0
                   /\ ~PathLookupFinds(fs, ml)) => ret.path = Join(BaseDir, mm)
            /\ PathLookupFinds(fs, mm) =>
                   ret.path = Join(PathDirs[LeftmostHit(fs, mm)], mm)

\* C23 witness: /a, on PATH, holds executable files mm-x and master-mold-x
\* and FindExecutable returned /a/mm-x.
C23_Witness ==
    /\ FoundExecutable
    /\ ret.arg = "x"
    /\ ExecFileAt(fs, "/a", "mm-x")
    /\ ExecFileAt(fs, "/a", "master-mold-x")
    /\ ret.path = "/a/mm-x"

\* C23 witness: the fallback directory holds mm-x without execute permission
\* and an executable master-mold-x, which FindExecutable returned.
C23_WitnessFallback ==
    /\ FoundExecutable
    /\ Stat(fs, "/h/b/mm-x").regular
    /\ ~Stat(fs, "/h/b/mm-x").exec
    /\ BaseDir \notin PathDirSet
    /\ ret.path = "/h/b/master-mold-x"

(***************************************************************************)
(* C24 -- the registry is written at startup only.                         *)
(***************************************************************************)
\* the names Get is asked for: the built-in command and the others
AllNames == Commands \cup {"list-binaries"}

\* C24: before main has created the registry nothing is registered and
\* nothing was dispatched; the handler map and the delegate are written by
\* main's startup step only, before any dispatch; from then on no step (the
\* dispatch through Registry.Execute with its Get, the wait for the child,
\* the return) changes the handler map, the delegate, or what Get returns
\* for any name, registered or not.
C24_RegistryReadOnly ==
    /\ [](mainpc = "start" =>
            /\ handlers = << >>
            /\ subcommandExecutor = "nil"
            /\ call = NoCall
            /\ DispatchEvents = {})
    /\ [](mainpc = "handle" =>
            /\ \A n \in AllNames : Get(n).ok <=> n = "list-binaries"
            /\ subcommandExecutor = "SubcommandExecutor.Execute")
    /\ [][regvars' # regvars =>
            /\ mainpc = "start"
            /\ call' = NoCall
            /\ DispatchEvents' = {}]_vars
    /\ [][mainpc # "start" =>
            /\ UNCHANGED regvars
            /\ \A n \in AllNames : Get(n)' = Get(n)]_vars

\* C24 witness: x, which has no handler, was dispatched to the delegate, the
\* child ran and exited, and the registry is as main's startup left it.
C24_Witness ==
    /\ Exited
    /\ call = [op |-> "Registry.Execute", name |-> "x", args |-> << >>]
    /\ child.state = "exited"
    /\ handlers = [n \in {"list-binaries"} |-> "ListBinariesHandler"]
    /\ subcommandExecutor = "SubcommandExecutor.Execute"

\* C24 witness: the registered command list-binaries was dispatched.
C24_WitnessRegistered ==
    /\ Exited
    /\ call.name = "list-binaries"
    /\ EventsOf("handler") # {}
    /\ handlers = [n \in {"list-binaries"} |-> "ListBinariesHandler"]

(***************************************************************************)
(* C25 -- a failed lookup launches nothing.                                *)
(***************************************************************************)
\* the call in progress was handed to the subcommand delegate
Delegated == call.op = "Registry.Execute" /\ EventsOf("delegate") # {}

\* C25: in a call handed to SubcommandExecutor.Execute, when FindExecutable
\* fails no child process is launched and the call has returned the error
\* "subcommand '<name>' not found" wrapped around the locator's error, which
\* names the command; every launch of the call comes right after its lookup
\* and starts the path FindExecutable returned, with the call's arguments.
C25_NoLaunchWithoutPath ==
    Delegated =>
        LET found == FindExecutable(fs, call.name, GetExpandedBaseDir(config))
        IN  /\ found.err # "nil" =>
                  /\ EventsOf("launch") = {}
                  /\ child = NoChild
                  /\ pc = "done"
                  /\ result = "subcommand '" \o call.name \o "' not found: "
                                 \o "subcommand '" \o call.name \o "' not found"
            /\ \A i \in EventsOf("launch") :
                  /\ found.err = "nil"
                  /\ events[i] = Event("launch", found.path, call.args)
                  /\ i > 1
                  /\ events[i - 1] = Event("locate", call.name, << >>)
            /\ child.state # "none" =>
                  /\ found.err = "nil"
                  /\ child.path = found.path
                  /\ EventsOf("launch") # {}

\* C25 witness: the delegate was asked for x, of which no binary exists; the
\* call returned the error and nothing was launched.
C25_Witness ==
    /\ Delegated
    /\ call.name = "x"
    /\ FindExecutable(fs, "x", GetExpandedBaseDir(config)).err # "nil"
    /\ pc = "done"
    /\ result = "subcommand 'x' not found: subcommand 'x' not found"
    /\ EventsOf("launch") = {}

\* C25 witness: the lookup of x returned /a/mm-x and that path was launched.
C25_WitnessLaunched ==
    /\ Delegated
    /\ child.state = "running"
    /\ child.path = "/a/mm-x"
    /\ FindExecutable(fs, "x", GetExpandedBaseDir(config)).path = "/a/mm-x"

(***************************************************************************)
(* C26 -- convertFieldsToPatches keeps the fields, in order.               *)
(***************************************************************************)
\* what the pointer a of a returned patch points to
Deref(a) == ret.before[a]

TypeFields(fields) == SelectSeq(fields, LAMBDA f : f.Path = WorkItemTypePath)

\* C27 as stated: one group, with all fields in input order, keyed by the
\* value of the first work item type field, or by "Task" without such a field.
C27_KeyedByFirstTypeField ==
    ret.op = "groupFieldsByWorkItemType" =>
        LET key == IF TypeFields(ret.arg) = << >> THEN "Task"
                   ELSE TypeFields(ret.arg)[1].Value
        IN  /\ DOMAIN ret.infos = {key}
            /\ ret.infos[key] = ret.arg

\* C27 (amended): the key is the value of the first work item type field
\* when that value is not empty, and "Task" when there is no such field or
\* the value of the first one is empty (later such fields are not looked at).
C27_OneGroup ==
    ret.op = "groupFieldsByWorkItemType" =>
        LET key == IF TypeFields(ret.arg) = << >> \/ TypeFields(ret.arg)[1].Value = ""
                   THEN "Task"
                   ELSE TypeFields(ret.arg)[1].Value
        IN  /\ DOMAIN ret.infos = {key}
            /\ Cardinality(DOMAIN ret.infos) = 1
            /\ ret.infos[key] = ret.arg

\* C27 witness: the title comes first, then the work item type Bug; the one
\* group is keyed Bug and holds both fields in that order.
C27_Witness ==
    /\ ret.op = "groupFieldsByWorkItemType"
    /\ Len(ret.arg) = 2
    /\ ret.arg[1].Path = "/fields/System.Title"
    /\ ret.arg[2] = [Op |-> "add", Path |-> WorkItemTypePath, Value |-> "Bug"]
    /\ DOMAIN ret.infos = {"Bug"}
    /\ ret.infos["Bug"] = ret.arg

\* C27 witness: no work item type field, the group is keyed Task.
C27_WitnessDefault ==
    /\ ret.op = "groupFieldsByWorkItemType"
    /\ Len(ret.arg) = 1
    /\ TypeFields(ret.arg) = << >>
    /\ DOMAIN ret.infos = {"Task"}

(***************************************************************************)
(* C28 -- the listing shows the binary that dispatch runs.                 *)
(***************************************************************************)
\* C28: when ProcessBinaries of what FindAll(fallbackDir) returned binds the
\* command name n to the path p, FindExecutable(n, fallbackDir) on the same
\* filesystem and PATH succeeds and returns p.
C28_ListingMatchesDispatch ==
    (ret.op = "FindAll" /\ ret.err = "nil") =>
        LET infos == ProcessBinaries(ret.binaries)
        IN  \A i \in 1..Len(infos) :
                FindExecutable(fs, infos[i].Name, ret.arg) =
                    [path |-> infos[i].FullPath, err |-> "nil"]

(***************************************************************************)
(* C29 -- FindExecutable never returns a directory.                        *)
(***************************************************************************)
\* C29: a path FindExecutable returns is a regular file with an execute
\* permission bit, never a directory or a symbolic link to one.
C29_NeverADirectory ==
    FoundExecutable =>
        LET fi == Stat(fs, ret.path)
        IN  /\ fi.err = "nil"
            /\ ~fi.isDir
            /\ fi.regular
            /\ fi.exec

(***************************************************************************)
(* C30 -- main always configures the delegate.                             *)
(***************************************************************************)
\* C30: once main has registered the commands the delegate is set, and it is
\* set whenever something was dispatched; the fallback
\* Registry.ExecuteSubcommand is never reached; and a dispatch of a name
\* without a handler has returned success only after a child process was
\* launched and has exited with status 0.
C30_DelegateAlwaysConfigured ==
    /\ mainpc = "handle" => subcommandExecutor = "SubcommandExecutor.Execute"
    /\ DispatchEvents # {} => subcommandExecutor # "nil"
    /\ EventsOf("ExecuteSubcommand") = {}
    /\ (call.op = "Registry.Execute" /\ ~Registered(call.name)
          /\ pc = "done" /\ result = "nil") =>
            /\ EventsOf("delegate") # {}
            /\ EventsOf("launch") # {}
            /\ child.state = "exited"
            /\ child.code = 0
    /\ (call.op = "Registry.Execute" /\ ~Registered(call.name) /\ exitCode = 0) =>
            (child.state = "exited" /\ child.code = 0)

\* C30 witness: x has no handler; the delegate found and launched /a/mm-x,
\* the child exited with status 0 and so did master-mold.
C30_Witness ==
    /\ Exited
    /\ call.op = "Registry.Execute"
    /\ call.name = "x"
    /\ ~Registered("x")
    /\ child = [state |-> "exited", path |-> "/a/mm-x", args |-> << >>, code |-> 0]
    /\ result = "nil"
    /\ exitCode = 0

\* C30 witness: x has no handler and no binary; the call failed.
C30_WitnessNotFound ==
    /\ Exited
    /\ call.name = "x"
    /\ child = NoChild
    /\ result # "nil"
    /\ exitCode = 1

====
